---- MODULE Spec2Model ----
(***************************************************************************)
(* Model of the finest-hosting browser utilities:                          *)
(*   - FormatHelper (js/dataentry-manager.js, revisions 2.0.0 and 1.0.0)   *)
(*   - getGroupedData (js/dashboard-shared.js and its later revision)      *)
(*   - CredentialsManager (credentials script)                             *)
(* Strings are sequences of one-character strings, so that the regular     *)
(* expressions, trim, substring, split and URL encoding of the code are    *)
(* computed character by character.                                        *)
(***************************************************************************)
EXTENDS Integers, Sequences, FiniteSets, TLC

VARIABLES fvalue, fprev, fop, fret,
          portfolioData, groupingKey, grev, active, groupedResults,
          search, localStorage, credentials, cop, persisted,
          initOptions, initReturn, called, message,
          rawPortfolio, prev, parsed, pthrew,
          drev, config, server, structure, mandatory, format,
          form, listeners, clearPending,
          dop, dresult, logged, containerFound, fields, submitted, calls,
          currentLang, translations, loading, started, completed,
          pageCurrentLang, title, description, requests, selections,
          tzo, offsetString,
          sharedField, sharedValue, blurred, validated

fvars == <<fvalue, fprev, fop, fret>>

gvars == <<portfolioData, groupingKey, grev, active, groupedResults>>

ivars == <<initOptions, initReturn, called, message>>

cvars == <<search, localStorage, credentials, cop, persisted, ivars>>

pvars == <<rawPortfolio, prev, parsed, pthrew>>

dvars == <<drev, config, server, structure, mandatory, format,
           form, listeners, clearPending,
           dop, dresult, logged, containerFound, fields, submitted, calls>>

tvars == <<currentLang, translations, loading, started, completed>>

svars == <<pageCurrentLang, title, description, requests, selections>>

uvars == <<tzo, offsetString>>

hvars == <<sharedField, sharedValue, blurred, validated>>

wvars == <<tvars, svars, uvars, hvars>>

vars == <<fvars, gvars, cvars, pvars, dvars, wvars>>

(***************************************************************************)
(* Bounds                                                                  *)
(***************************************************************************)
MaxFrac == 7

MaxItems == 2

MaxVal == 2

MaxEntries == 2

\* calls of setLanguage made on one page
MaxCalls == 3

\* changes of the language selector made on one page
MaxSelections == 2

\* the local timezone offsets: up to MaxOffset minutes east of UTC and up
\* to MaxWestOffset minutes west of it
MaxOffset == 840

MaxWestOffset == 720

(***************************************************************************)
(* Characters and generic string helpers                                   *)
(***************************************************************************)
Digits == {"0", "1", "2", "3", "4", "5", "6", "7", "8", "9"}

Upper == {"A", "B", "C", "D", "E", "F", "G", "H", "I", "J", "K", "L", "M",
          "N", "O", "P", "Q", "R", "S", "T", "U", "V", "W", "X", "Y", "Z"}

Lower == {"a", "b", "c", "d", "e", "f", "g", "h", "i", "j", "k", "l", "m",
          "n", "o", "p", "q", "r", "s", "t", "u", "v", "w", "x", "y", "z"}

\* what String.prototype.trim removes and what \s matches
WhiteSpace == {" ", "\t", "\n"}

SetMin(S) == CHOOSE x \in S : \A y \in S : x <= y

SetMax(S) == CHOOSE x \in S : \A y \in S : x >= y

\* String.prototype.trim
trim(s) ==
    LET keep == {i \in 1..Len(s) : s[i] \notin WhiteSpace}
    IN  IF keep = {} THEN <<>> ELSE SubSeq(s, SetMin(keep), SetMax(keep))

\* String.prototype.lastIndexOf(c), 0-based, -1 when absent
lastIndexOf(s, c) ==
    LET at == {i \in 1..Len(s) : s[i] = c}
    IN  IF at = {} THEN -1 ELSE SetMax(at) - 1

\* String.prototype.substring(from, to), 0-based, to exclusive
substring(s, from, to) == SubSeq(s, from + 1, to)

\* String.prototype.includes(c) for a one-character needle
includes(s, c) == \E i \in 1..Len(s) : s[i] = c

\* String.prototype.split(c) for a one-character separator
RECURSIVE split(_, _)
split(s, c) ==
    LET at == {i \in 1..Len(s) : s[i] = c}
    IN  IF at = {} THEN <<s>>
        ELSE <<SubSeq(s, 1, SetMin(at) - 1)>>
                 \o split(SubSeq(s, SetMin(at) + 1, Len(s)), c)

(***************************************************************************)
(* Regular expressions: a pattern maps a set P of positions (1-based, the  *)
(* next character to read) to the set of positions reachable by matching   *)
(* it, so alternation and backtracking are the union of the alternatives.  *)
(***************************************************************************)
ReLit(s, P, c) == {p + 1 : p \in {q \in P : q <= Len(s) /\ s[q] = c}}

ReClass(s, P, C) == {p + 1 : p \in {q \in P : q <= Len(s) /\ s[q] \in C}}

\* C{lo,hi}
ReRange(s, P, C, lo, hi) ==
    {j \in 1..(Len(s) + 1) :
        \E i \in P : /\ j - i >= lo
                     /\ j - i <= hi
                     /\ \A k \in i..(j - 1) : s[k] \in C}

\* C+
RePlus(s, P, C) == ReRange(s, P, C, 1, Len(s) + 1)

\* $ (no m flag: the end of the input only)
ReEnd(s, P) == (Len(s) + 1) \in P

\* \d+(\.\d+)?
ReNumber(s, P) ==
    LET int == RePlus(s, P, Digits)
    IN  int \cup RePlus(s, ReLit(s, int, "."), Digits)

\* -?\d+(\.\d{1,6})?
ReSignedNumber6(s, P) ==
    LET sgn == P \cup ReLit(s, P, "-")
        int == RePlus(s, sgn, Digits)
    IN  int \cup ReRange(s, ReLit(s, int, "."), Digits, 1, 6)

\* /^-?\d+(\.\d{1,6})?$/.test(s)
numRegex(s) == ReEnd(s, ReSignedNumber6(s, {1}))

\* /^[A-Z]{3}$/.test(s)
currencyRegex(s) == ReEnd(s, ReRange(s, {1}, Upper, 3, 3))

(***************************************************************************)
(* FormatHelper, revision 2.0.0                                            *)
(***************************************************************************)
validateDecimal_v2(value) ==
    IF value = <<>> THEN FALSE
    ELSE
      LET lastSpaceIndex == lastIndexOf(trim(value), " ")
      IN  IF lastSpaceIndex = -1 THEN FALSE
          ELSE
            LET number   == trim(substring(value, 0, lastSpaceIndex))
                currency == trim(substring(value, lastSpaceIndex + 1, Len(value)))
            IN  IF ~numRegex(number) THEN FALSE
                ELSE IF ~currencyRegex(currency) THEN FALSE
                ELSE TRUE

validateExchange_v2(value) ==
    IF value = <<>> THEN FALSE
    ELSE IF ~includes(value, ":") /\ ~includes(value, " ") THEN FALSE
    ELSE
      LET separator == IF includes(value, ":") THEN ":" ELSE " "
          parts     == split(value, separator)
      IN  IF Len(parts) # 2 THEN FALSE
          ELSE
            LET number     == parts[1]
                currencies == parts[2]
            IN  IF ~includes(currencies, "/") THEN FALSE
                ELSE
                  LET currencyParts == split(currencies, "/")
                  IN  IF Len(currencyParts) # 2 THEN FALSE
                      ELSE IF ~numRegex(number) THEN FALSE
                      ELSE IF ~currencyRegex(currencyParts[1])
                              \/ ~currencyRegex(currencyParts[2]) THEN FALSE
                      ELSE TRUE

\* dateTimeRegex with the hour written [0-2]\d
dateTimeRegex_anyHour(s) ==
    LET p1  == ReRange(s, {1}, Digits, 4, 4)
        p2  == ReRange(s, ReLit(s, p1, "-"), Digits, 2, 2)
        p3  == ReRange(s, ReLit(s, p2, "-"), Digits, 2, 2)
        p4  == ReLit(s, p3, " ")
        hh  == ReClass(s, ReClass(s, p4, {"0", "1", "2"}), Digits)
        mi  == ReClass(s, ReClass(s, ReLit(s, hh, ":"),
                                  {"0", "1", "2", "3", "4", "5"}), Digits)
        ss  == ReClass(s, ReClass(s, ReLit(s, mi, ":"),
                                  {"0", "1", "2", "3", "4", "5"}), Digits)
        sg  == ReClass(s, ss, {"+", "-"})
        tz  == ReRange(s, sg, Digits, 4, 4)
    IN  ReEnd(s, tz)

\* /^\d{4}-\d{2}-\d{2} ([01]\d|2[0-3]):([0-5]\d):([0-5]\d)[+-]\d{4}$/
dateTimeRegex(s) ==
    LET p1  == ReRange(s, {1}, Digits, 4, 4)
        p2  == ReRange(s, ReLit(s, p1, "-"), Digits, 2, 2)
        p3  == ReRange(s, ReLit(s, p2, "-"), Digits, 2, 2)
        p4  == ReLit(s, p3, " ")
        hh  == ReClass(s, ReClass(s, p4, {"0", "1"}), Digits)
                 \cup ReClass(s, ReLit(s, p4, "2"), {"0", "1", "2", "3"})
        mi  == ReClass(s, ReClass(s, ReLit(s, hh, ":"),
                                  {"0", "1", "2", "3", "4", "5"}), Digits)
        ss  == ReClass(s, ReClass(s, ReLit(s, mi, ":"),
                                  {"0", "1", "2", "3", "4", "5"}), Digits)
        sg  == ReClass(s, ss, {"+", "-"})
        tz  == ReRange(s, sg, Digits, 4, 4)
    IN  ReEnd(s, tz)

validateDateTime_v2(value) ==
    IF value = <<>> THEN FALSE ELSE dateTimeRegex(trim(value))

\* /^\d+(\.\d+)?$/
floatRegex(s) == ReEnd(s, ReNumber(s, {1}))

\* /^\d{4}-\d{2}-\d{2}$/
dateRegex(s) ==
    LET p1 == ReRange(s, {1}, Digits, 4, 4)
        p2 == ReRange(s, ReLit(s, p1, "-"), Digits, 2, 2)
        p3 == ReRange(s, ReLit(s, p2, "-"), Digits, 2, 2)
    IN  ReEnd(s, p3)

validateFloat_v2(value) ==
    IF value = <<>> THEN FALSE ELSE floatRegex(trim(value))

validateDate_v2(value) ==
    IF value = <<>> THEN FALSE ELSE dateRegex(trim(value))

(***************************************************************************)
(* FormatHelper, revision 1.0.0                                            *)
(***************************************************************************)
\* decimalColonRegex with the currency written [A-Za-z]{3}
decimalColonRegex_anyCase(s) ==
    ReEnd(s, ReRange(s, ReLit(s, ReNumber(s, {1}), ":"), Upper \cup Lower, 3, 3))

\* /^\d+(\.\d+)?\:[A-Z]{3}$/.test(s)
decimalColonRegex(s) ==
    ReEnd(s, ReRange(s, ReLit(s, ReNumber(s, {1}), ":"), Upper, 3, 3))

\* exchangeColonRegex with the number written \d+(\.\d{1,6})?
exchangeColonRegex_sixDigits(s) ==
    LET int == RePlus(s, {1}, Digits)
        num == int \cup ReRange(s, ReLit(s, int, "."), Digits, 1, 6)
        c1  == ReRange(s, ReLit(s, num, ":"), Upper, 3, 3)
    IN  ReEnd(s, ReRange(s, ReLit(s, c1, "/"), Upper, 3, 3))

\* /^\d+(\.\d+)?\:[A-Z]{3}\/[A-Z]{3}$/.test(s)
exchangeColonRegex(s) ==
    LET c1 == ReRange(s, ReLit(s, ReNumber(s, {1}), ":"), Upper, 3, 3)
    IN  ReEnd(s, ReRange(s, ReLit(s, c1, "/"), Upper, 3, 3))

\* v.match(/^(\d+(?:\.\d+)?)\s+([A-Z]{3})$/): the set of positions at which
\* capture group 1 can end in a successful match (empty when no match)
decimalSpaceMatch(v) ==
    {e \in ReNumber(v, {1}) :
        ReEnd(v, ReRange(v, RePlus(v, {e}, WhiteSpace), Upper, 3, 3))}

\* v.match(/^(\d+(?:\.\d+)?)\s+([A-Z]{3}\/[A-Z]{3})$/)
exchangeSpaceMatch(v) ==
    {e \in ReNumber(v, {1}) :
        LET c1 == ReRange(v, RePlus(v, {e}, WhiteSpace), Upper, 3, 3)
        IN  ReEnd(v, ReRange(v, ReLit(v, c1, "/"), Upper, 3, 3))}

\* normalizeDecimal that builds its result from m[0] (the whole match)
\* instead of m[1]
normalizeDecimal_wholeMatch(value) ==
    LET v == trim(value)
        m == decimalSpaceMatch(v)
    IN  IF decimalColonRegex(v) THEN v
        ELSE IF m # {}
             THEN v \o <<":">> \o SubSeq(v, Len(v) - 2, Len(v))
             ELSE v

normalizeDecimal(value) ==
    LET v == trim(value)
        m == decimalSpaceMatch(v)
    IN  IF decimalColonRegex(v) THEN v
        ELSE IF m # {}
             THEN LET e == SetMax(m)
                  IN  SubSeq(v, 1, e - 1) \o <<":">> \o SubSeq(v, Len(v) - 2, Len(v))
             ELSE v

normalizeExchange(value) ==
    LET v == trim(value)
        m == exchangeSpaceMatch(v)
    IN  IF exchangeColonRegex(v) THEN v
        ELSE IF m # {}
             THEN LET e == SetMax(m)
                  IN  SubSeq(v, 1, e - 1) \o <<":">> \o SubSeq(v, Len(v) - 6, Len(v))
             ELSE v

validateDecimal_v1(value) == decimalColonRegex(value)

validateExchange_v1(value) == exchangeColonRegex(value)

validateDateTime_v1(value) ==
    IF value = <<>> THEN FALSE ELSE dateTimeRegex(trim(value))

validateFloat_v1(value) ==
    IF value = <<>> THEN FALSE ELSE floatRegex(trim(value))

validateDate_v1(value) ==
    IF value = <<>> THEN FALSE ELSE dateRegex(trim(value))

(***************************************************************************)
(* Inputs of the format specification: what a user can type in a field     *)
(***************************************************************************)
EUR == <<"E", "U", "R">>

USD == <<"U", "S", "D">>

FracDigit(i) == <<"4", "5", "0", "1", "2", "3", "6", "7", "8", "9">>[((i - 1) % 10) + 1]

\* with and without surrounding white space
Padded(s) == {s, <<" ">> \o s \o <<" ">>}

IntParts == {<<>>, <<"1", "2">>, <<"-", "1">>}

FracParts == {<<>>} \cup {<<".">> \o [i \in 1..k |-> FracDigit(i)] : k \in 0..MaxFrac}

SepParts == {<<>>, <<":">>, <<" ">>, <<":", ":">>, <<"\t">>}

CurParts == {<<>>, EUR, <<"e", "u", "r">>, <<"E", "U">>,
             EUR \o <<"/">> \o USD, EUR \o USD,
             EUR \o <<"/">> \o <<"u", "s", "d">>,
             EUR \o <<"/">> \o USD \o <<"/">> \o EUR}

AmountInputs ==
    UNION {Padded(n \o f \o p \o c) :
        n \in IntParts, f \in FracParts, p \in SepParts, c \in CurParts}

DateParts == {<<"2", "0", "2", "4", "-", "1", "2", "-", "1", "9">>,
              <<"2", "4", "-", "1", "2", "-", "1", "9">>}

DateSepParts == {<<" ">>, <<"T">>}

HourParts == {<<"0", "0">>, <<"1", "4">>, <<"2", "3">>, <<"2", "4">>, <<"7">>}

MinuteParts == {<<"0", "0">>, <<"6", "0">>}

SecondParts == {<<"5", "9">>, <<"6", "0">>}

ZoneParts == {<<>>, <<"+", "0", "1", "0", "0">>, <<"-", "0", "5", "3", "0">>,
              <<"+", "0", "1", "0">>}

DateTimeInputs ==
    UNION {Padded(d \o p \o h \o <<":">> \o m \o <<":">> \o x \o z) :
        d \in DateParts, p \in DateSepParts, h \in HourParts,
        m \in MinuteParts, x \in SecondParts, z \in ZoneParts}

\* the literal examples of the documentation
ExampleInputs ==
    {<<"1", "2", "3", ".", "4", "5", ":", "E", "U", "R">>,
     <<"1", "2", "3", ".", "4", "5", " ", "E", "U", "R">>,
     <<"1", ".", "1", "0", ":", "E", "U", "R", "/", "U", "S", "D">>,
     <<"1", ".", "1", "0", " ", "E", "U", "R", "/", "U", "S", "D">>,
     <<"2", "0", "2", "4", "-", "1", "2", "-", "1", "9">>,
     <<"2", "0", "2", "4", "-", "1", "2", "-", "1", "9", " ",
       "1", "4", ":", "3", "0", ":", "0", "0", "+", "0", "1", "0", "0">>}

YearParts == {<<"2", "0", "2", "4">>, <<"2", "4">>, <<"2", "0", "2", "4", "5">>}

MonthParts == {<<"1", "2">>, <<"0", "1">>, <<"1", "3">>, <<"0", "0">>, <<"1">>}

DayParts == {<<"1", "9">>, <<"3", "1">>, <<"4", "5">>, <<"3", "2">>, <<"0", "0">>,
             <<"9">>}

DashParts == {<<"-">>, <<"/">>}

DateInputs ==
    UNION {Padded(y \o p \o m \o p \o d) :
        y \in YearParts, p \in DashParts, m \in MonthParts, d \in DayParts}

FloatInputs ==
    UNION {Padded(n) :
        n \in {<<"1", "2", "3", ".", "4", "5">>, <<"0">>, <<"0", ".", "0">>,
               <<"0", ".", "5">>, <<"7">>, <<"-", "7">>, <<"+", "7">>,
               <<"-", "0", ".", "5">>, <<"a", "b", "c">>, <<"1", "e", "3">>,
               <<".", "5">>, <<"5", ".">>, <<"1", ",", "5">>, <<"1", " ", "5">>}}

FormatInputs ==
    AmountInputs \cup DateTimeInputs \cup ExampleInputs \cup DateInputs \cup FloatInputs

(***************************************************************************)
(* Format specification: a field holds what the user typed; each action    *)
(* applies one FormatHelper function to the field.  The normalizers write  *)
(* their result back to the field, as the blur handler does.               *)
(***************************************************************************)
IdleFormat ==
    /\ fvalue = <<>>
    /\ fprev = <<>>
    /\ fop = "none"
    /\ fret = FALSE

IdleGroup ==
    /\ portfolioData = <<>>
    /\ groupingKey = ""
    /\ grev = "none"
    /\ active = <<>>
    /\ groupedResults = <<>>

\* no initialize call has been made on the page
IdleInitialize ==
    /\ initOptions = <<>>
    /\ initReturn = <<>>
    /\ called = {}
    /\ message = <<>>

IdleCredentials ==
    /\ search = <<>>
    /\ localStorage = [k \in {"username", "token", "language", "filter"} |-> <<>>]
    /\ credentials = <<>>
    /\ cop = "none"
    /\ persisted = <<>>
    /\ IdleInitialize

IdleParse ==
    /\ rawPortfolio = <<>>
    /\ prev = "none"
    /\ parsed = <<>>
    /\ pthrew = FALSE

\* no DataEntryManager has been constructed
IdleForm ==
    /\ drev = "none"
    /\ config = <<>>
    /\ server = <<>>
    /\ structure = <<>>
    /\ mandatory = <<>>
    /\ format = <<>>
    /\ form = <<>>
    /\ listeners = {}
    /\ clearPending = FALSE
    /\ dop = "none"
    /\ dresult = "none"
    /\ logged = FALSE
    /\ containerFound = FALSE
    /\ fields = <<>>
    /\ submitted = <<>>
    /\ calls = {}

\* translations.js has not been loaded on the page
IdleTranslations ==
    /\ currentLang = ""
    /\ translations = <<>>
    /\ loading = <<>>
    /\ started = 0
    /\ completed = <<>>

\* the language-selector script has not run
IdleSelector ==
    /\ pageCurrentLang = ""
    /\ title = ""
    /\ description = ""
    /\ requests = <<>>
    /\ selections = 0

\* no page has asked DataEntryUtils for the timezone offset
IdleUtils ==
    /\ tzo = 0
    /\ offsetString = <<>>

\* no field is rendered by the shared data-entry module
IdleShared ==
    /\ sharedField = <<>>
    /\ sharedValue = <<>>
    /\ blurred = <<>>
    /\ validated = <<>>

IdlePage ==
    /\ IdleTranslations
    /\ IdleSelector
    /\ IdleUtils
    /\ IdleShared

InitFormat ==
    /\ fvalue \in FormatInputs
    /\ fprev = fvalue
    /\ fop = "none"
    /\ fret = FALSE
    /\ IdleGroup
    /\ IdleCredentials
    /\ IdleParse
    /\ IdleForm
    /\ IdlePage

Validate(op, result) ==
    /\ fop' = op
    /\ fret' = result
    /\ UNCHANGED <<fvalue, fprev>>
    /\ UNCHANGED <<gvars, cvars, pvars, dvars, wvars>>

ValidateDecimalV1 == Validate("validateDecimal_v1", validateDecimal_v1(fvalue))

ValidateDecimalV2 == Validate("validateDecimal_v2", validateDecimal_v2(fvalue))

ValidateExchangeV1 == Validate("validateExchange_v1", validateExchange_v1(fvalue))

ValidateExchangeV2 == Validate("validateExchange_v2", validateExchange_v2(fvalue))

ValidateDateTimeV1 == Validate("validateDateTime_v1", validateDateTime_v1(fvalue))

ValidateDateTimeV2 == Validate("validateDateTime_v2", validateDateTime_v2(fvalue))

ValidateFloatV1 == Validate("validateFloat_v1", validateFloat_v1(fvalue))

ValidateFloatV2 == Validate("validateFloat_v2", validateFloat_v2(fvalue))

ValidateDateV1 == Validate("validateDate_v1", validateDate_v1(fvalue))

ValidateDateV2 == Validate("validateDate_v2", validateDate_v2(fvalue))

NormalizeDecimal ==
    /\ fop' = "normalizeDecimal"
    /\ fprev' = fvalue
    /\ fvalue' = normalizeDecimal(fvalue)
    /\ UNCHANGED fret
    /\ UNCHANGED <<gvars, cvars, pvars, dvars, wvars>>

NormalizeExchange ==
    /\ fop' = "normalizeExchange"
    /\ fprev' = fvalue
    /\ fvalue' = normalizeExchange(fvalue)
    /\ UNCHANGED fret
    /\ UNCHANGED <<gvars, cvars, pvars, dvars, wvars>>

NextFormat ==
    \/ ValidateDecimalV1
    \/ ValidateDecimalV2
    \/ ValidateExchangeV1
    \/ ValidateExchangeV2
    \/ ValidateDateTimeV1
    \/ ValidateDateTimeV2
    \/ ValidateFloatV1
    \/ ValidateFloatV2
    \/ ValidateDateV1
    \/ ValidateDateV2
    \/ NormalizeDecimal
    \/ NormalizeExchange

SpecFormat == InitFormat /\ [][NextFormat]_vars

(***************************************************************************)
(* The documented formats, written from their description                  *)
(***************************************************************************)
CountOf(s, c) == Cardinality({i \in 1..Len(s) : s[i] = c})

\* <digits>[.<digits>]
IsNumberForm(s) ==
    /\ Len(s) >= 1
    /\ \A i \in 1..Len(s) : s[i] \in Digits \cup {"."}
    /\ CountOf(s, ".") <= 1
    /\ s[1] # "."
    /\ s[Len(s)] # "."

\* the number of digits after the decimal point
FractionLen(s) ==
    IF CountOf(s, ".") = 0 THEN 0
    ELSE Len(s) - (CHOOSE i \in 1..Len(s) : s[i] = ".")

IsCurrency(s) == Len(s) = 3 /\ \A i \in 1..3 : s[i] \in Upper

\* <number><sep><currency>
IsAmountForm(s, sep) ==
    \E i \in 1..Len(s) :
        /\ s[i] = sep
        /\ IsNumberForm(SubSeq(s, 1, i - 1))
        /\ IsCurrency(SubSeq(s, i + 1, Len(s)))

\* <number><sep><currency>/<currency>
IsPairForm(s, sep) ==
    \E i \in 1..Len(s) :
        /\ s[i] = sep
        /\ IsNumberForm(SubSeq(s, 1, i - 1))
        /\ Len(s) = i + 7
        /\ IsCurrency(SubSeq(s, i + 1, i + 3))
        /\ s[i + 4] = "/"
        /\ IsCurrency(SubSeq(s, i + 5, i + 7))

\* the number part of an amount or pair: what precedes the separator
NumberPart(s, sep) == SubSeq(s, 1, (CHOOSE i \in 1..Len(s) : s[i] = sep) - 1)

\* the same string with its separator replaced by a colon
WithColon(s, sep) == [s EXCEPT ![CHOOSE i \in 1..Len(s) : s[i] = sep] = ":"]

IsLetters(s, n) == Len(s) = n /\ \A i \in 1..n : s[i] \in Upper \cup Lower

\* malformed decimals: no currency, lowercase or two-letter currency, no
\* number, empty
MalformedDecimal(s) ==
    \/ s = <<>>
    \/ IsNumberForm(s)
    \/ IsCurrency(s)
    \/ \E i \in 1..Len(s) :
         /\ s[i] = ":"
         /\ LET n == SubSeq(s, 1, i - 1)
                c == SubSeq(s, i + 1, Len(s))
            IN  \/ IsNumberForm(n) /\ c = <<>>
                \/ IsNumberForm(n) /\ IsLetters(c, 3) /\ ~IsCurrency(c)
                \/ IsNumberForm(n) /\ IsLetters(c, 2)
                \/ n = <<>> /\ IsCurrency(c)

\* malformed exchange rates: single currency, missing slash, lowercase
\* currency, extra separator, empty
MalformedExchange(s) ==
    \/ s = <<>>
    \/ IsAmountForm(s, ":")
    \/ \E i \in 1..Len(s) :
         /\ s[i] = ":"
         /\ IsNumberForm(SubSeq(s, 1, i - 1))
         /\ LET c == SubSeq(s, i + 1, Len(s))
            IN  \/ IsLetters(c, 6)
                \/ /\ Len(c) = 7
                   /\ c[4] = "/"
                   /\ IsLetters(SubSeq(c, 1, 3), 3)
                   /\ IsLetters(SubSeq(c, 5, 7), 3)
                   /\ ~(IsCurrency(SubSeq(c, 1, 3)) /\ IsCurrency(SubSeq(c, 5, 7)))
                \/ /\ Len(c) >= 8
                   /\ c[1] = ":"
                   /\ IsCurrency(SubSeq(c, 2, 4))
                \/ /\ Len(c) = 11
                   /\ c[4] = "/"
                   /\ c[8] = "/"
                   /\ IsCurrency(SubSeq(c, 1, 3))
                   /\ IsCurrency(SubSeq(c, 5, 7))
                   /\ IsCurrency(SubSeq(c, 9, 11))

DigitVal(c) == CHOOSE n \in 0..9 : <<"0", "1", "2", "3", "4", "5", "6", "7", "8", "9">>[n + 1] = c

\* the two-digit number at positions i, i+1
TwoDigits(s, i) == 10 * DigitVal(s[i]) + DigitVal(s[i + 1])

\* YYYY-MM-DD HH:MM:SS followed by + or - and four digits, HH in 00-23,
\* MM and SS in 00-59
IsDateTimeShape(s) ==
    /\ Len(s) = 24
    /\ \A i \in {1, 2, 3, 4, 6, 7, 9, 10, 12, 13, 15, 16, 18, 19, 21, 22, 23, 24} :
          s[i] \in Digits
    /\ s[5] = "-" /\ s[8] = "-"
    /\ s[11] = " "
    /\ s[14] = ":" /\ s[17] = ":"
    /\ s[20] \in {"+", "-"}
    /\ TwoDigits(s, 12) <= 23
    /\ TwoDigits(s, 15) <= 59
    /\ TwoDigits(s, 18) <= 59

Str_123_45_colon_EUR == <<"1", "2", "3", ".", "4", "5", ":", "E", "U", "R">>

Str_123_45_space_EUR == <<"1", "2", "3", ".", "4", "5", " ", "E", "U", "R">>

Str_1_10_colon_EUR_USD == <<"1", ".", "1", "0", ":", "E", "U", "R", "/", "U", "S", "D">>

Str_datetime_example ==
    <<"2", "0", "2", "4", "-", "1", "2", "-", "1", "9", " ",
      "1", "4", ":", "3", "0", ":", "0", "0", "+", "0", "1", "0", "0">>

(***************************************************************************)
(* C1 (amended): validateDecimal of revision 1.0.0 returns true for every  *)
(* string <digits>[.<digits>]:<three uppercase letters> and false for the  *)
(* malformed variants (no currency, lowercase or two-letter currency, no   *)
(* number, empty string); validateDecimal of revision 2.0.0 returns false  *)
(* for the same malformed variants and for every string without a space,   *)
(* the colon form included, and true for <digits>[.<1-6 digits>] <CCC>.    *)
(***************************************************************************)
C1_ValidateDecimal ==
    /\ fop = "validateDecimal_v1" =>
          /\ IsAmountForm(fvalue, ":") => fret = TRUE
          /\ MalformedDecimal(fvalue) => fret = FALSE
    /\ fop = "validateDecimal_v2" =>
          /\ MalformedDecimal(fvalue) => fret = FALSE
          /\ ~includes(fvalue, " ") => fret = FALSE
          /\ (IsAmountForm(fvalue, " ")
                /\ FractionLen(NumberPart(fvalue, " ")) <= 6) => fret = TRUE

C1_Witness ==
    /\ fop = "validateDecimal_v1"
    /\ fvalue = Str_123_45_colon_EUR
    /\ fret = TRUE

\* C1 as stated: in each revision the colon form is accepted and the
\* malformed variants are rejected
C1_Original ==
    fop \in {"validateDecimal_v1", "validateDecimal_v2"} =>
        /\ IsAmountForm(fvalue, ":") => fret = TRUE
        /\ MalformedDecimal(fvalue) => fret = FALSE

(***************************************************************************)
(* C2 (amended): validateExchange returns true for every string            *)
(* <digits>[.<digits>]:<CCC>/<CCC> in revision 1.0.0, and in revision      *)
(* 2.0.0 for every such string with at most six digits after the decimal   *)
(* point (with more it returns false); both revisions return false for the *)
(* malformed variants (single currency, missing slash, lowercase currency, *)
(* extra separator, empty string).                                         *)
(***************************************************************************)
C2_ValidateExchange ==
    /\ fop = "validateExchange_v1" =>
          /\ IsPairForm(fvalue, ":") => fret = TRUE
          /\ MalformedExchange(fvalue) => fret = FALSE
    /\ fop = "validateExchange_v2" =>
          /\ IsPairForm(fvalue, ":") =>
                (fret = (FractionLen(NumberPart(fvalue, ":")) <= 6))
          /\ MalformedExchange(fvalue) => fret = FALSE

C2_Witness ==
    /\ fop = "validateExchange_v2"
    /\ fvalue = Str_1_10_colon_EUR_USD
    /\ fret = TRUE

\* C2 as stated: in each revision every colon-form pair is accepted
C2_Original ==
    fop \in {"validateExchange_v1", "validateExchange_v2"} =>
        /\ IsPairForm(fvalue, ":") => fret = TRUE
        /\ MalformedExchange(fvalue) => fret = FALSE

(***************************************************************************)
(* C3: validateDateTime returns true exactly for the strings that, after   *)
(* trimming, have the shape YYYY-MM-DD HH:MM:SS(+|-)dddd with HH in 00-23  *)
(* and MM, SS in 00-59; so it returns false for hour 24, minute or second  *)
(* 60, a missing offset and the empty string.                              *)
(***************************************************************************)
C3_ValidateDateTime ==
    fop \in {"validateDateTime_v1", "validateDateTime_v2"} =>
        (fret = IsDateTimeShape(trim(fvalue)))

C3_Witness ==
    /\ fop = "validateDateTime_v1"
    /\ fvalue = Str_datetime_example
    /\ fret = TRUE

(***************************************************************************)
(* C4: normalizeDecimal("n c") = "n:c" and normalizeExchange("n c1/c2") =  *)
(* "n:c1/c2"; an input already in colon form is returned unchanged; and    *)
(* applying a normalizer to its own result changes nothing.                *)
(***************************************************************************)
C4_NormalizeStep ==
    /\ fop = "normalizeDecimal" =>
          /\ IsAmountForm(fprev, " ") => fvalue = WithColon(fprev, " ")
          /\ IsAmountForm(fprev, ":") => fvalue = fprev
    /\ fop = "normalizeExchange" =>
          /\ IsPairForm(fprev, " ") => fvalue = WithColon(fprev, " ")
          /\ IsPairForm(fprev, ":") => fvalue = fprev

C4_Idempotent ==
    /\ (fop = "normalizeDecimal" /\ fop' = "normalizeDecimal") => fvalue' = fvalue
    /\ (fop = "normalizeExchange" /\ fop' = "normalizeExchange") => fvalue' = fvalue

C4_Normalize == []C4_NormalizeStep /\ [][C4_Idempotent]_vars

C4_Witness ==
    /\ fop = "normalizeDecimal"
    /\ fprev = Str_123_45_space_EUR
    /\ fvalue = Str_123_45_colon_EUR

(***************************************************************************)
(* getGroupedData (js/dashboard-shared.js and the later revision of the    *)
(* same script).                                                           *)
(*                                                                         *)
(* A value of an item is a number, a numeric string ("2"), a string that   *)
(* only starts with a number ("2,5": parseFloat reads 2, the arithmetic    *)
(* conversion gives NaN), a string that is no number, or is missing.       *)
(***************************************************************************)
Num(n) == [kind |-> "num", n |-> n]

NumStr(n) == [kind |-> "str", n |-> n]

PrefixStr(n) == [kind |-> "pfx", n |-> n]

NotANumber == [kind |-> "bad", n |-> 0]

Missing == [kind |-> "missing", n |-> 0]

\* !isNaN(parseFloat(v))
parseFloatIsNumber(v) == v.kind \in {"num", "str", "pfx"}

\* parseFloat(v), when it is a number
parseFloat(v) == v.n

\* the operand conversion of the - operator: ToNumber(v) is not NaN
toNumberIsNumber(v) == v.kind \in {"num", "str"}

ItemValues ==
    {Num(n) : n \in (0 - 1)..MaxVal}
        \cup {NumStr(MaxVal), PrefixStr(1), NotANumber, Missing}

Instruments == {"I1", "I2", "I3", "I4"}

\* classificationMap: id_instrument -> classification object; I4 has no
\* entry, I3 has no sector, the sector of I2 is empty
classificationMap ==
    [id \in {"I1", "I2", "I3"} |->
        CASE id = "I1" -> [asset_class |-> "Equity", sector |-> "Tech"]
          [] id = "I2" -> [asset_class |-> "Bond", sector |-> ""]
          [] id = "I3" -> [asset_class |-> "Equity"]]

GroupingKeys == {"", "asset_class", "sector"}

instrumentDescription(id) == IF id = "I1" THEN "Alpha Fund" ELSE ""

Tickers == <<"T1", "T2", "T3", "T4", "T5">>

\* the flat portfolio of n items with the given instruments and values
Portfolio(n, ids, vals) ==
    [i \in 1..n |-> [Ticker |-> Tickers[i],
                     id_instrument |-> ids[i],
                     instrument_description |-> instrumentDescription(ids[i]),
                     CTVMKTTQ |-> vals[i]]]

\* portfolioData.filter(x => { val = parseFloat(x[valueKey]); return !isNaN(val) && val > 0 })
filterActive_shared(data) ==
    SelectSeq(data, LAMBDA x : parseFloatIsNumber(x.CTVMKTTQ) /\ parseFloat(x.CTVMKTTQ) > 0)

\* portfolioData.filter(x => { val = parseFloat(x[valueKey]); return !isNaN(val) && val !== 0 })
filterActive_part0(data) ==
    SelectSeq(data, LAMBDA x : parseFloatIsNumber(x.CTVMKTTQ) /\ parseFloat(x.CTVMKTTQ) # 0)

\* labelOf without the fallback of an empty classification value
labelOf_keepEmpty(item, key) ==
    LET id == item.id_instrument
    IN  IF id \notin DOMAIN classificationMap THEN "Other"
        ELSE LET cls == classificationMap[id]
             IN  IF key \notin DOMAIN cls THEN "Other"
                 ELSE cls[key]

\* cls ? cls[groupingKey] : null, then labelKey || "Other"
labelOf(item, key) ==
    LET id == item.id_instrument
    IN  IF id \notin DOMAIN classificationMap THEN "Other"
        ELSE LET cls == classificationMap[id]
             IN  IF key \notin DOMAIN cls THEN "Other"
                 ELSE IF cls[key] = "" THEN "Other"
                 ELSE cls[key]

\* the object grp after the forEach: its keys in insertion order and its sums
RECURSIVE groupSums(_, _, _)
groupSums(items, key, grp) ==
    IF items = <<>> THEN grp
    ELSE
      LET item  == Head(items)
          label == labelOf(item, key)
          at    == {i \in 1..Len(grp) : grp[i].label = label}
          grp0  == IF at = {} THEN Append(grp, [label |-> label, value |-> 0]) ELSE grp
          j     == CHOOSE i \in 1..Len(grp0) : grp0[i].label = label
      IN  groupSums(Tail(items), key,
                    [grp0 EXCEPT ![j].value = @ + parseFloat(item.CTVMKTTQ)])

\* the comparator (a, b) => b[1] - a[1] on the entries of grp
compareEntries(a, b) == b.value - a.value

\* the comparator (a, b) => b[valueKey] - a[valueKey] on items; a NaN result
\* counts as +0
compareItems(a, b) ==
    IF toNumberIsNumber(a.CTVMKTTQ) /\ toNumberIsNumber(b.CTVMKTTQ)
    THEN b.CTVMKTTQ.n - a.CTVMKTTQ.n
    ELSE 0

\* the comparator handed to Array.prototype.sort by each branch
compare(by, a, b) ==
    IF by = "entries" THEN compareEntries(a, b) ELSE compareItems(a, b)

\* Array.prototype.sort: a comparator is consistent when "compares equal" and
\* "compares less" are transitive over the elements of the array
ConsistentComparator(seq, by) ==
    \A i, j, k \in 1..Len(seq) :
        LET ij == compare(by, seq[i], seq[j])
            jk == compare(by, seq[j], seq[k])
            ik == compare(by, seq[i], seq[k])
        IN  /\ (ij = 0 /\ jk = 0) => ik = 0
            /\ (ij < 0 /\ jk < 0) => ik < 0
            /\ (ij < 0 /\ jk = 0) => ik < 0
            /\ (ij = 0 /\ jk < 0) => ik < 0

SeqPermutations(seq) ==
    {[i \in 1..Len(seq) |-> seq[p[i]]] :
        p \in {q \in [1..Len(seq) -> 1..Len(seq)] :
                  \A i, j \in 1..Len(seq) : q[i] = q[j] => i = j}}

\* the stable sort: every element goes behind the last earlier element
\* that does not compare greater than it
RECURSIVE stableSort(_, _)
stableSort(seq, by) ==
    IF seq = <<>> THEN <<>>
    ELSE
      LET n      == Len(seq)
          sorted == stableSort(SubSeq(seq, 1, n - 1), by)
          x      == seq[n]
          before == {i \in 1..Len(sorted) : compare(by, sorted[i], x) <= 0}
          at     == IF before = {} THEN 0 ELSE SetMax(before)
      IN  SubSeq(sorted, 1, at) \o <<x>> \o SubSeq(sorted, at + 1, Len(sorted))

\* the possible results of seq.sort(cmp): the stable sort for a consistent
\* comparator, an implementation-defined order otherwise
sortResults(seq, by) ==
    IF ConsistentComparator(seq, by) THEN {stableSort(seq, by)}
    ELSE SeqPermutations(seq)

\* the branch if (groupingKey): Object.entries(grp).sort(...).map(...)
groupedBranch(act, key) ==
    sortResults(groupSums(act, key, <<>>), "entries")

\* the branch else, after active.sort(...): active.map(...)
ungroupedBranch(sorted) ==
    [i \in 1..Len(sorted) |->
        [label |-> IF sorted[i].instrument_description # ""
                   THEN sorted[i].instrument_description
                   ELSE sorted[i].Ticker,
         value |-> parseFloat(sorted[i].CTVMKTTQ)]]

\* the pairs <<active, groupedResults>> a call can end with
getGroupedData(act, key) ==
    IF key # ""
    THEN {<<act, r>> : r \in groupedBranch(act, key)}
    ELSE {<<sorted, ungroupedBranch(sorted)>> :
          sorted \in sortResults(act, "items")}

(***************************************************************************)
(* Grouping specification: the page holds a portfolio and a grouping       *)
(* selection; each action is one call of getGroupedData.                   *)
(***************************************************************************)
InitGroup ==
    /\ \E n \in 0..MaxItems :
          \E ids \in [1..n -> Instruments], vals \in [1..n -> ItemValues] :
              portfolioData = Portfolio(n, ids, vals)
    /\ groupingKey \in GroupingKeys
    /\ grev = "none"
    /\ active = <<>>
    /\ groupedResults = <<>>
    /\ IdleFormat
    /\ IdleCredentials
    /\ IdleParse
    /\ IdleForm
    /\ IdlePage

GetGroupedData_shared ==
    /\ \E out \in getGroupedData(filterActive_shared(portfolioData), groupingKey) :
          /\ active' = out[1]
          /\ groupedResults' = out[2]
    /\ grev' = "shared"
    /\ UNCHANGED <<portfolioData, groupingKey>>
    /\ UNCHANGED <<fvars, cvars, pvars, dvars, wvars>>

GetGroupedData_part0 ==
    /\ \E out \in getGroupedData(filterActive_part0(portfolioData), groupingKey) :
          /\ active' = out[1]
          /\ groupedResults' = out[2]
    /\ grev' = "part0"
    /\ UNCHANGED <<portfolioData, groupingKey>>
    /\ UNCHANGED <<fvars, cvars, pvars, dvars, wvars>>

NextGroup ==
    \/ GetGroupedData_shared
    \/ GetGroupedData_part0

SpecGroup == InitGroup /\ [][NextGroup]_vars

(***************************************************************************)
(* What the grouping claims speak about                                    *)
(***************************************************************************)
RECURSIVE SumValues(_)
SumValues(seq) ==
    IF seq = <<>> THEN 0 ELSE seq[1].value + SumValues(Tail(seq))

\* the numeric value of an item: what parseFloat reads, nothing when it
\* reads no number
ItemAmount(item) ==
    IF parseFloatIsNumber(item.CTVMKTTQ) THEN parseFloat(item.CTVMKTTQ) ELSE 0

RECURSIVE SumAmounts(_)
SumAmounts(items) ==
    IF items = <<>> THEN 0 ELSE ItemAmount(items[1]) + SumAmounts(Tail(items))

\* the input items whose classification label is the given one
ItemsLabelled(label) ==
    SelectSeq(portfolioData, LAMBDA x : labelOf(x, groupingKey) = label)

\* an item with a non-zero numeric value
HasNonZeroValue(item) == ItemAmount(item) # 0

Called == grev \in {"shared", "part0"}

Descending(seq) ==
    \A i \in 1..(Len(seq) - 1) : seq[i].value >= seq[i + 1].value

(***************************************************************************)
(* C5: with a non-empty groupingKey, the value of each returned group is   *)
(* the sum of the values of all input items whose classification label is *)
(* the label of the group.                                                 *)
(***************************************************************************)
C5_GroupSums ==
    (Called /\ groupingKey # "") =>
        \A g \in 1..Len(groupedResults) :
            groupedResults[g].value
                = SumAmounts(ItemsLabelled(groupedResults[g].label))

\* C5 holds of the later revision, which keeps the negative values
C5_GroupSums_part0 == grev = "part0" => C5_GroupSums

(***************************************************************************)
(* C6: the list returned by getGroupedData is sorted by value in           *)
(* descending order, with a groupingKey (groups) and without (items).      *)
(***************************************************************************)
C6_SortedDescending == Called => Descending(groupedResults)

\* C6 holds of the groups, and of the items when every value is a number
\* or a numeric string
C6_SortedDescending_numeric ==
    (Called /\ (groupingKey # ""
                  \/ \A i \in 1..Len(portfolioData) :
                        portfolioData[i].CTVMKTTQ.kind # "pfx"))
        => Descending(groupedResults)

(***************************************************************************)
(* C7: getGroupedData drops exactly the items whose value is zero or       *)
(* invalid: every item with a non-zero numeric value, positive or          *)
(* negative, is counted in the result and no other item is.                *)
(***************************************************************************)
C7_FilterZeroInvalid ==
    Called =>
        /\ \A i \in 1..Len(portfolioData) :
              HasNonZeroValue(portfolioData[i])
                 <=> \E j \in 1..Len(active) : active[j].Ticker = portfolioData[i].Ticker
        /\ SumValues(groupedResults) = SumAmounts(portfolioData)
        /\ groupingKey = "" =>
              Len(groupedResults)
                 = Cardinality({i \in 1..Len(portfolioData) :
                                   HasNonZeroValue(portfolioData[i])})

\* C7 holds of the later revision
C7_FilterZeroInvalid_part0 == grev = "part0" => C7_FilterZeroInvalid

(***************************************************************************)
(* CredentialsManager.                                                     *)
(*                                                                         *)
(* window.location.search is the query string without its "?".  An item   *)
(* of localStorage, a URL parameter and the returned credentials are <<>>  *)
(* when absent (null) and <<value>> when present.                          *)
(***************************************************************************)
Fields == <<"username", "token", "language", "filter">>

\* STORAGE_KEYS and the names of the URL parameters
ParamName ==
    [username |-> <<"u", "s", "e", "r", "n", "a", "m", "e">>,
     token    |-> <<"t", "o", "k", "e", "n">>,
     language |-> <<"l", "a", "n", "g", "u", "a", "g", "e">>,
     filter   |-> <<"f", "i", "l", "t", "e", "r">>]

\* the bytes the form-urlencoded serializer writes as they are
UrlSafe == Digits \cup Upper \cup Lower \cup {"*", "-", ".", "_"}

\* the percent-encodings of the other characters of the model
PercentCode ==
    [c \in {" ", "%", "&", "+", "="} |->
        CASE c = " " -> <<"2", "0">>
          [] c = "%" -> <<"2", "5">>
          [] c = "&" -> <<"2", "6">>
          [] c = "+" -> <<"2", "B">>
          [] c = "=" -> <<"3", "D">>]

\* URLSearchParams.toString on one name or value
RECURSIVE urlEncode(_)
urlEncode(s) ==
    IF s = <<>> THEN <<>>
    ELSE (IF s[1] = " " THEN <<"+">>
          ELSE IF s[1] \in UrlSafe THEN <<s[1]>>
          ELSE <<"%">> \o PercentCode[s[1]]) \o urlEncode(Tail(s))

\* new URLSearchParams(...) on one name or value: + is a space, %XX a byte
RECURSIVE urlDecode(_)
urlDecode(s) ==
    IF s = <<>> THEN <<>>
    ELSE IF s[1] = "+" THEN <<" ">> \o urlDecode(Tail(s))
    ELSE IF /\ s[1] = "%"
            /\ Len(s) >= 3
            /\ \E c \in DOMAIN PercentCode : PercentCode[c] = <<s[2], s[3]>>
         THEN <<CHOOSE c \in DOMAIN PercentCode : PercentCode[c] = <<s[2], s[3]>>>>
                  \o urlDecode(SubSeq(s, 4, Len(s)))
    ELSE <<s[1]>> \o urlDecode(Tail(s))

\* new URLSearchParams(search): the list of <<name, value>> pairs
urlParse(query) ==
    LET pieces == SelectSeq(split(query, "&"), LAMBDA x : x # <<>>)
    IN  [i \in 1..Len(pieces) |->
            LET eq == {k \in 1..Len(pieces[i]) : pieces[i][k] = "="}
            IN  IF eq = {} THEN <<urlDecode(pieces[i]), <<>>>>
                ELSE <<urlDecode(SubSeq(pieces[i], 1, SetMin(eq) - 1)),
                       urlDecode(SubSeq(pieces[i], SetMin(eq) + 1, Len(pieces[i])))>>]

\* urlParams.has(name)
paramsHas(params, name) == \E i \in 1..Len(params) : params[i][1] = name

\* urlParams.get(name): the first value, or null
paramsGet(params, name) ==
    LET at == {i \in 1..Len(params) : params[i][1] = name}
    IN  IF at = {} THEN <<>> ELSE <<params[SetMin(at)][2]>>

\* params.toString() after params.set on each listed pair
RECURSIVE urlToString(_)
urlToString(pairs) ==
    IF pairs = <<>> THEN <<>>
    ELSE urlEncode(pairs[1][1]) \o <<"=">> \o urlEncode(pairs[1][2])
           \o (IF Len(pairs) > 1 THEN <<"&">> ELSE <<>>)
           \o urlToString(Tail(pairs))

\* a || b on optional strings: a when it is present and not empty
OrElse(a, b) == IF a # <<>> /\ a[1] # <<>> THEN a ELSE b

\* the value of credentials.filter when the object has no filter property
Undefined == <<"undefined">>

DefaultLanguage == <<"i", "t", "_", "I", "T">>

\* saveCredentials that forgets the language
saveCredentials_noLanguage(store, c) ==
    [k \in DOMAIN store |->
        CASE k = "username" -> IF c.username # <<>> THEN <<c.username>> ELSE store[k]
          [] k = "token"    -> IF c.token # <<>> THEN <<c.token>> ELSE store[k]
          [] k = "language" -> store[k]
          [] k = "filter"   -> IF c.filter # Undefined THEN <<c.filter>> ELSE store[k]]

\* saveCredentials(credentials)
saveCredentials(store, c) ==
    [k \in DOMAIN store |->
        CASE k = "username" -> IF c.username # <<>> THEN <<c.username>> ELSE store[k]
          [] k = "token"    -> IF c.token # <<>> THEN <<c.token>> ELSE store[k]
          [] k = "language" -> IF c.language # <<>> THEN <<c.language>> ELSE store[k]
          [] k = "filter"   -> IF c.filter # Undefined THEN <<c.filter>> ELSE store[k]]

\* readCredentials that asks localStorage before the URL
readCredentials_storageFirst(urlParams, store) ==
    [username |-> OrElse(OrElse(store.username, paramsGet(urlParams, ParamName.username)),
                         <<<<>>>>)[1],
     token    |-> OrElse(OrElse(store.token, paramsGet(urlParams, ParamName.token)),
                         <<<<>>>>)[1],
     language |-> OrElse(OrElse(store.language, paramsGet(urlParams, ParamName.language)),
                         <<DefaultLanguage>>)[1],
     filter   |-> OrElse(OrElse(store.filter, paramsGet(urlParams, ParamName.filter)),
                         <<<<>>>>)[1]]

\* the object built by getCredentials from urlParams and localStorage
readCredentials(urlParams, store) ==
    [username |-> OrElse(OrElse(paramsGet(urlParams, ParamName.username), store.username),
                         <<<<>>>>)[1],
     token    |-> OrElse(OrElse(paramsGet(urlParams, ParamName.token), store.token),
                         <<<<>>>>)[1],
     language |-> OrElse(OrElse(paramsGet(urlParams, ParamName.language), store.language),
                         <<DefaultLanguage>>)[1],
     filter   |-> OrElse(OrElse(paramsGet(urlParams, ParamName.filter), store.filter),
                         <<<<>>>>)[1]]

\* whether getCredentials calls saveCredentials
savesCredentials(urlParams) ==
    paramsHas(urlParams, ParamName.username) \/ paramsHas(urlParams, ParamName.token)

\* getCredentials(): <<the returned object, localStorage after the call,
\* whether saveCredentials was called>>
getCredentials(query, store) ==
    LET urlParams == urlParse(query)
        c         == readCredentials(urlParams, store)
        saves     == savesCredentials(urlParams)
    IN  <<c, IF saves THEN saveCredentials(store, c) ELSE store, saves>>

\* validateCredentials that looks at the username only
validateCredentials_usernameOnly(c) == c.username # <<>>

\* validateCredentials(credentials): the empty string is falsy
validateCredentials(c) == c.username # <<>> /\ c.token # <<>>

Str_missing == <<"C", "r", "e", "d", "e", "n", "z", "i", "a", "l", "i", " ",
                 "m", "a", "n", "c", "a", "n", "t", "i">>

\* showCredentialsError(messageElementId): the text of the message element
\* after the call, when the page has such an element
showCredentialsError(hasElement, text) ==
    IF hasElement THEN <<Str_missing>> ELSE text

\* buildQueryString(credentials) for a given object
buildQueryString(c) ==
    urlToString(
        (IF c.username # <<>> THEN <<<<ParamName.username, c.username>>>> ELSE <<>>)
     \o (IF c.token # <<>> THEN <<<<ParamName.token, c.token>>>> ELSE <<>>)
     \o (IF c.language # <<>> THEN <<<<ParamName.language, c.language>>>> ELSE <<>>)
     \o (IF c.filter # <<>> /\ c.filter # Undefined
         THEN <<<<ParamName.filter, c.filter>>>> ELSE <<>>))

(***************************************************************************)
(* Inputs of the credentials specification                                 *)
(***************************************************************************)
Str_a_b == <<"a", " ", "b">>

Str_al == <<"a", "l">>

Str_t_amp_1 == <<"t", "&", "1">>

Str_t0 == <<"t", "0">>

Str_en_UK == <<"e", "n", "_", "U", "K">>

Str_fr_FR == <<"f", "r", "_", "F", "R">>

Str_5_percent == <<"5", "%">>

Str_f1 == <<"f", "1">>

\* the values a link can carry for each parameter (<<>>: parameter absent)
UrlValues ==
    [username |-> {<<>>, <<<<>>>>, <<Str_a_b>>},
     token    |-> {<<>>, <<Str_t_amp_1>>},
     language |-> {<<>>, <<Str_en_UK>>},
     filter   |-> {<<>>, <<Str_5_percent>>}]

\* the items a browser can hold before the page is opened
StoredValues ==
    [username |-> {<<>>, <<Str_al>>},
     token    |-> {<<>>, <<Str_t0>>},
     language |-> {<<>>, <<Str_fr_FR>>},
     filter   |-> {<<>>, <<Str_f1>>}]

\* the pairs of a link that carries the chosen parameters
RECURSIVE linkPairs(_, _)
linkPairs(choice, i) ==
    IF i > Len(Fields) THEN <<>>
    ELSE (IF choice[Fields[i]] = <<>> THEN <<>>
          ELSE <<<<ParamName[Fields[i]], choice[Fields[i]][1]>>>>)
            \o linkPairs(choice, i + 1)

PageSearches ==
    {urlToString(linkPairs(choice, 1)) :
        choice \in [username : UrlValues.username, token : UrlValues.token,
                    language : UrlValues.language, filter : UrlValues.filter]}
      \cup {ParamName.username \o <<"=">> \o Str_al \o <<"&">>
               \o ParamName.username \o <<"=">> \o Str_a_b,
            ParamName.token}

Stores ==
    [username : StoredValues.username, token : StoredValues.token,
     language : StoredValues.language, filter : StoredValues.filter]

\* the objects a page hands to navigate, buildQueryString or saveCredentials
CallerCredentials ==
    [username : {Str_a_b}, token : {Str_t_amp_1},
     language : {<<>>, Str_en_UK}, filter : {<<>>, Str_5_percent, Undefined}]

\* the options a page passes to initialize: requireAuth, whether the page
\* has the message element, whether onSuccess and onError are functions
\* (both default to null)
InitializeOptions ==
    [requireAuth : BOOLEAN, messageElement : BOOLEAN,
     onSuccess : BOOLEAN, onError : BOOLEAN]

\* the query a target page already has: none, or ?code=7
TargetQueries == {<<>>, <<"c", "o", "d", "e", "=", "7">>}

(***************************************************************************)
(* Credentials specification.  A page is opened with a query string; its   *)
(* script calls the functions of CredentialsManager; localStorage outlives *)
(* the page, the objects of the script do not.                             *)
(***************************************************************************)
InitCredentials ==
    /\ search \in PageSearches
    /\ localStorage \in Stores
    /\ credentials = <<>>
    /\ cop = "load"
    /\ persisted = <<>>
    /\ IdleInitialize
    /\ IdleFormat
    /\ IdleGroup
    /\ IdleParse
    /\ IdleForm
    /\ IdlePage

\* a new document replaces the page: what initialize left on it is gone
PageLoaded ==
    /\ initOptions' = <<>>
    /\ initReturn' = <<>>
    /\ called' = {}
    /\ message' = <<>>

\* CredentialsManager.getCredentials()
GetCredentials ==
    /\ \E r \in {getCredentials(search, localStorage)} :
          /\ credentials' = <<r[1]>>
          /\ localStorage' = r[2]
          /\ persisted' = IF r[3] THEN <<r[1]>> ELSE persisted
    /\ cop' = "getCredentials"
    /\ UNCHANGED <<search, ivars>>
    /\ UNCHANGED <<fvars, gvars, pvars, dvars, wvars>>

\* CredentialsManager.saveCredentials(c), called by the page
SaveCredentials ==
    /\ \E c \in CallerCredentials : localStorage' = saveCredentials(localStorage, c)
    /\ cop' = "saveCredentials"
    /\ persisted' = <<>>
    /\ UNCHANGED <<search, credentials, ivars>>
    /\ UNCHANGED <<fvars, gvars, pvars, dvars, wvars>>

\* CredentialsManager.clearCredentials()
ClearCredentials ==
    /\ localStorage' = [k \in DOMAIN localStorage |-> <<>>]
    /\ cop' = "clearCredentials"
    /\ persisted' = <<>>
    /\ UNCHANGED <<search, credentials, ivars>>
    /\ UNCHANGED <<fvars, gvars, pvars, dvars, wvars>>

\* `${url}${separator}${queryString}`
targetSearch(targetQuery, queryString) ==
    IF targetQuery = <<>> THEN queryString
    ELSE targetQuery \o <<"&">> \o queryString

\* CredentialsManager.navigate(url, c): the target page is loaded
NavigateWith ==
    /\ \E c \in CallerCredentials, q \in TargetQueries :
          search' = targetSearch(q, buildQueryString(c))
    /\ credentials' = <<>>
    /\ cop' = "navigate"
    /\ PageLoaded
    /\ UNCHANGED <<localStorage, persisted>>
    /\ UNCHANGED <<fvars, gvars, pvars, dvars, wvars>>

\* CredentialsManager.navigate(url): credentials = null, so buildQueryString
\* calls getCredentials()
NavigateCurrent ==
    /\ \E r \in {getCredentials(search, localStorage)}, q \in TargetQueries :
          /\ search' = targetSearch(q, buildQueryString(r[1]))
          /\ localStorage' = r[2]
          /\ persisted' = IF r[3] THEN <<r[1]>> ELSE persisted
    /\ credentials' = <<>>
    /\ cop' = "navigate"
    /\ PageLoaded
    /\ UNCHANGED <<fvars, gvars, pvars, dvars, wvars>>

\* CredentialsManager.initialize(options): initReturn is <<>> for the
\* returned false and <<c>> for the returned credentials object
Initialize ==
    /\ \E o \in InitializeOptions, r \in {getCredentials(search, localStorage)} :
          /\ initOptions' = <<o>>
          /\ credentials' = <<r[1]>>
          /\ localStorage' = r[2]
          /\ persisted' = IF r[3] THEN <<r[1]>> ELSE persisted
          /\ IF o.requireAuth /\ ~validateCredentials(r[1])
             THEN /\ message' = showCredentialsError(o.messageElement, message)
                  /\ called' = IF o.onError THEN {"onError"} ELSE {}
                  /\ initReturn' = <<>>
             ELSE /\ called' = IF o.onSuccess THEN {"onSuccess"} ELSE {}
                  /\ initReturn' = <<r[1]>>
                  /\ UNCHANGED message
    /\ cop' = "initialize"
    /\ UNCHANGED search
    /\ UNCHANGED <<fvars, gvars, pvars, dvars, wvars>>

\* the user opens a page of the site without a query string
OpenPage ==
    /\ search' = <<>>
    /\ credentials' = <<>>
    /\ cop' = "load"
    /\ PageLoaded
    /\ UNCHANGED <<localStorage, persisted>>
    /\ UNCHANGED <<fvars, gvars, pvars, dvars, wvars>>

NextCredentials ==
    \/ GetCredentials
    \/ SaveCredentials
    \/ ClearCredentials
    \/ NavigateWith
    \/ NavigateCurrent
    \/ OpenPage

SpecCredentials == InitCredentials /\ [][NextCredentials]_vars

(***************************************************************************)
(* Initialize specification: the script of every page that is opened calls *)
(* CredentialsManager.initialize with its options.                         *)
(***************************************************************************)
NextInitialize ==
    \/ Initialize
    \/ OpenPage

SpecInitialize == InitCredentials /\ [][NextInitialize]_vars

(***************************************************************************)
(* What the credentials claims speak about                                 *)
(***************************************************************************)
\* the URL query parameter of a field: <<>> when absent, <<value>> otherwise
UrlParam(field) == paramsGet(urlParse(search), ParamName[field])

DefaultOf(field) == IF field = "language" THEN DefaultLanguage ELSE <<>>

\* URL parameter when present and non-empty, otherwise the stored value,
\* otherwise the default
Precedence(field) ==
    IF UrlParam(field) # <<>> /\ UrlParam(field)[1] # <<>> THEN UrlParam(field)[1]
    ELSE IF localStorage[field] # <<>> THEN localStorage[field][1]
    ELSE DefaultOf(field)

\* the URL carries none of the four parameters
NoCredentialParams ==
    \A i \in 1..Len(Fields) : ~paramsHas(urlParse(search), ParamName[Fields[i]])

(***************************************************************************)
(* C8: for each of username, token, language and filter, getCredentials    *)
(* returns the URL query parameter when it is present and non-empty,       *)
(* otherwise the value stored in localStorage, otherwise the default       *)
(* ('' for username, token and filter, 'it_IT' for language).              *)
(***************************************************************************)
C8_PrecedenceStep ==
    cop' = "getCredentials" =>
        credentials' = <<[f \in {"username", "token", "language", "filter"} |->
                            Precedence(f)]>>

C8_Precedence == [][C8_PrecedenceStep]_vars

C8_Witness ==
    /\ cop = "getCredentials"
    /\ UrlParam("username") = <<Str_a_b>>
    /\ credentials[1].username = Str_a_b
    /\ UrlParam("token") = <<>>
    /\ credentials[1].token = Str_t0
    /\ UrlParam("language") = <<>>
    /\ credentials[1].language = DefaultLanguage

(***************************************************************************)
(* C9: once getCredentials has run with a username or a token parameter in *)
(* the URL, a later getCredentials call with no URL parameters, with no    *)
(* clearCredentials or other write in between, returns the same username,  *)
(* token, language and filter.                                             *)
(***************************************************************************)
C9_PassThrough ==
    (cop = "getCredentials" /\ NoCredentialParams /\ persisted # <<>>)
        => credentials = persisted

C9_Witness ==
    /\ cop = "getCredentials"
    /\ search = <<>>
    /\ persisted # <<>>
    /\ credentials = persisted
    /\ credentials[1].username = Str_a_b
    /\ credentials[1].language = Str_en_UK

(***************************************************************************)
(* C10: for any credentials c with non-empty username and token and any    *)
(* prior localStorage content, a page opened with the query string         *)
(* buildQueryString(c) obtains from getCredentials exactly c in all four   *)
(* fields.                                                                 *)
(***************************************************************************)
C10_MirrorLossless ==
    cop = "getCredentials" =>
        \A c \in CallerCredentials :
            (/\ c.username # <<>>
             /\ c.token # <<>>
             /\ c.filter # Undefined
             /\ search = buildQueryString(c)) => credentials = <<c>>

\* the fields that are not empty do arrive unchanged
C10_MirrorNonEmptyFields ==
    cop = "getCredentials" =>
        \A c \in CallerCredentials :
            search = buildQueryString(c) =>
                /\ credentials[1].username = c.username
                /\ credentials[1].token = c.token
                /\ c.language # <<>> => credentials[1].language = c.language
                /\ (c.filter # <<>> /\ c.filter # Undefined)
                      => credentials[1].filter = c.filter

Str_2024_12_19 == <<"2", "0", "2", "4", "-", "1", "2", "-", "1", "9">>

Str_2024_13_45 == <<"2", "0", "2", "4", "-", "1", "3", "-", "4", "5">>

Str_123_45 == <<"1", "2", "3", ".", "4", "5">>

\* four digits, a dash, two digits, a dash, two digits
IsDateShape(s) ==
    /\ Len(s) = 10
    /\ \A i \in {1, 2, 3, 4, 6, 7, 9, 10} : s[i] \in Digits
    /\ s[5] = "-" /\ s[8] = "-"

\* a date shape whose month is in 01-12 and whose day is in 01-31
IsCalendarDate(s) ==
    /\ IsDateShape(s)
    /\ TwoDigits(s, 6) \in 1..12
    /\ TwoDigits(s, 9) \in 1..31

\* a decimal number greater than zero
IsPositiveDecimal(s) ==
    /\ IsNumberForm(s)
    /\ \E i \in 1..Len(s) : s[i] \in Digits \ {"0"}

DateValidated == fop \in {"validateDate_v1", "validateDate_v2"}

FloatValidated == fop \in {"validateFloat_v1", "validateFloat_v2"}

(***************************************************************************)
(* C16: validateDate accepts "2024-12-19" and rejects every malformed      *)
(* variant of a YYYY-MM-DD date: wrong digit counts, wrong separators, a   *)
(* month outside 01-12 or a day outside 01-31.                             *)
(***************************************************************************)
C16_ValidateDate ==
    DateValidated =>
        /\ fvalue = Str_2024_12_19 => fret
        /\ ~IsCalendarDate(trim(fvalue)) => ~fret

\* what both revisions do: the digit counts and the separators are checked,
\* the ranges of month and day are not
C16_ValidateDate_shape ==
    DateValidated => (fret <=> (fvalue # <<>> /\ IsDateShape(trim(fvalue))))

(***************************************************************************)
(* C17: validateFloat returns true exactly for the strings that denote a   *)
(* positive decimal number: true for "123.45", false for negative numbers, *)
(* non-numeric text, the empty string and zero ("0", "0.0").               *)
(***************************************************************************)
C17_ValidateFloat ==
    FloatValidated =>
        /\ fvalue = Str_123_45 => fret
        /\ fret <=> IsPositiveDecimal(trim(fvalue))

\* what both revisions do: unsigned decimal numbers, zero included
C17_ValidateFloat_unsigned ==
    FloatValidated => (fret <=> (fvalue # <<>> /\ IsNumberForm(trim(fvalue))))

(***************************************************************************)
(* What the "Other" claim speaks about                                     *)
(***************************************************************************)
\* the classification value of an instrument for a key: <<>> when the map
\* has no entry for the instrument or the entry has no such key
ClassificationValue(id, key) ==
    IF id \in DOMAIN classificationMap /\ key \in DOMAIN classificationMap[id]
    THEN <<classificationMap[id][key]>>
    ELSE <<>>

\* the group an item belongs to
GroupOf(item, key) ==
    LET v == ClassificationValue(item.id_instrument, key)
    IN  IF v = <<>> \/ v = <<"">> THEN "Other" ELSE v[1]

\* the counted items that belong to a group
CountedIn(label) ==
    SelectSeq(active, LAMBDA x : GroupOf(x, groupingKey) = label)

(***************************************************************************)
(* C19: with a groupingKey, every counted item whose instrument has no     *)
(* entry in classificationMap, or whose entry has no value or an empty     *)
(* value for the key, is summed under the single label "Other"; every      *)
(* other counted item is summed under its own classification value; each   *)
(* counted item contributes to exactly one group.                          *)
(***************************************************************************)
C19_OtherGroup ==
    (Called /\ groupingKey # "") =>
        /\ \A i \in 1..Len(active) :
              Cardinality({g \in 1..Len(groupedResults) :
                  groupedResults[g].label = GroupOf(active[i], groupingKey)}) = 1
        /\ \A g \in 1..Len(groupedResults) :
              /\ CountedIn(groupedResults[g].label) # <<>>
              /\ groupedResults[g].value
                    = SumAmounts(CountedIn(groupedResults[g].label))

C19_Witness ==
    /\ Called
    /\ groupingKey = "sector"
    /\ Len(active) = 2
    /\ {active[1].id_instrument, active[2].id_instrument} = {"I2", "I4"}
    /\ Len(groupedResults) = 1
    /\ groupedResults[1].label = "Other"
    /\ groupedResults[1].value = 3

(***************************************************************************)
(* parsePortfolioItems (js/dashboard-shared.js and the later revision of   *)
(* the same script).                                                       *)
(*                                                                         *)
(* An object is a function from its keys to its values.  A value is one of *)
(* the value kinds of getGroupedData; null is a kind of its own, and the   *)
(* number that toFixed(1) prints is kept in tenths.  The raw portfolio is  *)
(* an array (of arrays or of objects), a dictionary (its entries in        *)
(* insertion order), null or a primitive.                                  *)
(***************************************************************************)
Null == [kind |-> "null", n |-> 0]

\* the number t / 10
Tenths(t) == [kind |-> "tenths", n |-> t]

NonObject == [kind |-> "null", props |-> <<>>]

Object(props) == [kind |-> "object", props |-> props]

\* typeof val === 'string' && /^-?\d+(\.\d+)?$/.test(val.trim())
isNumericString(val) == val.kind = "str"

\* the value parseItem stores for a key; exclude: the keys left as they are
convertValue(key, val, exclude) ==
    IF key \notin exclude /\ isNumericString(val) THEN Num(parseFloat(val)) ELSE val

\* parseItem(symbol, details)
parseItem(symbol, details, exclude) ==
    LET keys == IF details.kind = "object" THEN DOMAIN details.props ELSE {}
    IN  [k \in {"Ticker"} \cup keys |->
            IF k \in keys THEN convertValue(k, details.props[k], exclude)
            ELSE symbol]

\* n.toFixed(1) of n = a / b for a >= 0 and b > 0, in tenths: the nearest
\* tenth, the larger one of two equally near
roundTenths(a, b) == (20 * a + b) \div (2 * b)

Abs(n) == IF n < 0 THEN 0 - n ELSE n

\* parseFloat(((mp / cost) * 100).toFixed(1)), in tenths
percentTenths(mp, cost) ==
    LET t == roundTenths(100 * Abs(mp), Abs(cost))
    IN  IF (mp < 0) = (cost < 0) THEN t ELSE 0 - t

\* item[key], undefined when the item has no such key
propertyOf(item, key) == IF key \in DOMAIN item THEN item[key] ELSE Missing

\* the value given to item['%']
percentOf(item) ==
    LET mp   == propertyOf(item, "M/P")
        cost == propertyOf(item, "cost_amount")
    IN  IF mp.kind = "num" /\ cost.kind = "num" /\ cost.n # 0
        THEN Tenths(percentTenths(mp.n, cost.n))
        ELSE Null

\* the forEach that sets item['%'] on every item
withPercent(items) ==
    [i \in 1..Len(items) |->
        [k \in DOMAIN items[i] \cup {"%"} |->
            IF k = "%" THEN percentOf(items[i]) ELSE items[i][k]]]

\* a canonical array index: Object.keys lists such keys first, in ascending
\* numeric order
IsArrayIndex(sym) ==
    /\ Len(sym) >= 1
    /\ Len(sym) <= 9
    /\ \A i \in 1..Len(sym) : sym[i] \in Digits
    /\ (Len(sym) > 1 => sym[1] # "0")

RECURSIVE IndexValue(_)
IndexValue(sym) ==
    IF sym = <<>> THEN 0
    ELSE 10 * IndexValue(SubSeq(sym, 1, Len(sym) - 1)) + DigitVal(sym[Len(sym)])

\* the entries whose key is an array index, in ascending order of the index
RECURSIVE sortedIndexEntries(_)
sortedIndexEntries(entries) ==
    LET idx == {i \in 1..Len(entries) : IsArrayIndex(entries[i].symbol)}
    IN  IF idx = {} THEN <<>>
        ELSE LET m == CHOOSE i \in idx :
                        \A j \in idx : IndexValue(entries[i].symbol)
                                          <= IndexValue(entries[j].symbol)
             IN  <<entries[m]>>
                   \o sortedIndexEntries(
                        SelectSeq(entries, LAMBDA e : e.symbol # entries[m].symbol))

\* Object.keys(rawPortfolio) with the value of each key
objectEntries(entries) ==
    sortedIndexEntries(entries)
        \o SelectSeq(entries, LAMBDA e : ~IsArrayIndex(e.symbol))

\* the dictionary branch that skips the symbols whose details are no object
dictionaryBranch_objectsOnly(entries, exclude) ==
    LET own  == objectEntries(entries)
        kept == SelectSeq(own, LAMBDA e : e.details.kind = "object")
    IN  [i \in 1..Len(kept) |-> parseItem(kept[i].symbol, kept[i].details, exclude)]

\* Object.keys(rawPortfolio).forEach(symbol => portfolioData.push(parseItem(...)))
dictionaryBranch(entries, exclude) ==
    LET own == objectEntries(entries)
    IN  [i \in 1..Len(own) |-> parseItem(own[i].symbol, own[i].details, exclude)]

\* rawPortfolio.forEach(entry => { if (Array.isArray(entry) && entry.length === 2) push })
arrayBranch_shared(elems) ==
    LET kept == SelectSeq(elems, LAMBDA e : e.kind = "array" /\ e.len = 2)
    IN  [i \in 1..Len(kept) |-> parseItem(kept[i].symbol, kept[i].details, {})]

\* rawPortfolio.forEach(entry => { if (entry.length >= 2) push }): the length
\* of an object that is no array is undefined
tupleBranch_part0(elems) ==
    LET kept == SelectSeq(elems, LAMBDA e : e.kind = "array" /\ e.len >= 2)
    IN  [i \in 1..Len(kept) |->
            parseItem(kept[i].symbol, kept[i].details, {"id_account"})]

\* what an element of the array is when the array is returned as it is
elementValue(e) ==
    IF e.kind = "object" THEN e.obj
    ELSE [k \in {"0", "1"} |-> IF k = "0" THEN e.symbol ELSE e.details]

\* parsePortfolioItems of js/dashboard-shared.js: <<returned list, whether a
\* TypeError was thrown>>
parsePortfolioItems_shared(raw) ==
    IF raw.shape = "array" THEN <<withPercent(arrayBranch_shared(raw.elems)), FALSE>>
    ELSE IF raw.shape = "dict"
         THEN <<withPercent(dictionaryBranch(raw.elems, {})), FALSE>>
    ELSE IF raw.shape = "null" THEN <<<<>>, TRUE>>
    ELSE <<<<>>, FALSE>>

\* parsePortfolioItems of the later revision
parsePortfolioItems_part0(raw) ==
    IF raw.shape = "array" /\ Len(raw.elems) > 0 /\ raw.elems[1].kind = "array"
    THEN <<withPercent(tupleBranch_part0(raw.elems)), FALSE>>
    ELSE IF raw.shape = "array"
         THEN IF Len(raw.elems) > 0 /\ raw.elems[1].kind = "object"
              THEN <<[i \in 1..Len(raw.elems) |-> elementValue(raw.elems[i])], FALSE>>
              ELSE <<<<>>, FALSE>>
    ELSE IF raw.shape = "dict"
         THEN <<withPercent(dictionaryBranch(raw.elems, {"id_account"})), FALSE>>
    ELSE <<<<>>, FALSE>>

(***************************************************************************)
(* Inputs of the parse specification                                       *)
(***************************************************************************)
Symbols == {<<"A", "A", "P", "L">>, <<"7", "2", "0", "3">>, <<"1", "2">>}

\* the details of a position as the API sends them
DetailsSet ==
    {Object(("M/P" :> Num(1)) @@ ("cost_amount" :> Num(3))),
     Object(("M/P" :> Num(2)) @@ ("cost_amount" :> Num(3))
               @@ ("id_account" :> NumStr(7))),
     Object(("M/P" :> NumStr(0 - 1)) @@ ("cost_amount" :> NumStr(2))),
     Object(("M/P" :> Num(1)) @@ ("cost_amount" :> Num(0))),
     Object(("M/P" :> PrefixStr(1)) @@ ("cost_amount" :> Num(2))),
     Object(("cost_amount" :> Num(2))),
     Object(("M/P" :> Num(1)) @@ ("cost_amount" :> NotANumber)),
     NonObject}

ArrayStyles == {"pairs", "pairThenTriples", "objects", "objectThenPairs"}

\* the i-th element of an array of the given style
arrayElement(style, i, symbol, details) ==
    LET isObject == style = "objects" \/ (style = "objectThenPairs" /\ i = 1)
        len      == IF style = "pairThenTriples" /\ i > 1 THEN 3 ELSE 2
    IN  [kind    |-> IF isObject THEN "object" ELSE "array",
         len     |-> IF isObject THEN 0 ELSE len,
         symbol  |-> symbol,
         details |-> details,
         obj     |-> IF isObject
                     THEN ("Ticker" :> symbol)
                            @@ (IF details.kind = "object" THEN details.props ELSE <<>>)
                     ELSE <<>>]

ArrayOf(style, n, syms, ds) ==
    [shape |-> "array",
     elems |-> [i \in 1..n |-> arrayElement(style, i, syms[i], ds[i])]]

DictionaryOf(n, syms, ds) ==
    [shape |-> "dict",
     elems |-> [i \in 1..n |-> [symbol |-> syms[i], details |-> ds[i]]]]

NullPortfolio == [shape |-> "null", elems |-> <<>>]

PrimitivePortfolio == [shape |-> "primitive", elems |-> <<>>]

(***************************************************************************)
(* Parse specification: the API answers with a raw portfolio and the page  *)
(* parses it.                                                              *)
(***************************************************************************)
InitParse ==
    /\ \/ \E n \in 0..MaxEntries :
             \E syms \in [1..n -> Symbols], ds \in [1..n -> DetailsSet] :
                \/ \E style \in ArrayStyles : rawPortfolio = ArrayOf(style, n, syms, ds)
                \/ /\ \A i, j \in 1..n : syms[i] = syms[j] => i = j
                   /\ rawPortfolio = DictionaryOf(n, syms, ds)
       \/ rawPortfolio \in {NullPortfolio, PrimitivePortfolio}
    /\ prev = "none"
    /\ parsed = <<>>
    /\ pthrew = FALSE
    /\ IdleFormat
    /\ IdleGroup
    /\ IdleCredentials
    /\ IdleForm
    /\ IdlePage

ParsePortfolioItems_shared ==
    /\ \E r \in {parsePortfolioItems_shared(rawPortfolio)} :
          /\ parsed' = r[1]
          /\ pthrew' = r[2]
    /\ prev' = "shared"
    /\ UNCHANGED rawPortfolio
    /\ UNCHANGED <<fvars, gvars, cvars, dvars, wvars>>

ParsePortfolioItems_part0 ==
    /\ \E r \in {parsePortfolioItems_part0(rawPortfolio)} :
          /\ parsed' = r[1]
          /\ pthrew' = r[2]
    /\ prev' = "part0"
    /\ UNCHANGED rawPortfolio
    /\ UNCHANGED <<fvars, gvars, cvars, dvars, wvars>>

NextParse ==
    \/ ParsePortfolioItems_shared
    \/ ParsePortfolioItems_part0

SpecParse == InitParse /\ [][NextParse]_vars

(***************************************************************************)
(* What the parse claims speak about                                       *)
(***************************************************************************)
Parsed == prev \in {"shared", "part0"}

\* the function of the revision that ran
parsePortfolioItems(rev, raw) ==
    IF rev = "shared" THEN parsePortfolioItems_shared(raw)[1]
    ELSE parsePortfolioItems_part0(raw)[1]

\* the keys of an object in the order the language lists them: the array
\* indices in ascending order, then the other keys as they were inserted.
\* Whether the key at position i is listed before the key at position j
ListedBefore(entries, i, j) ==
    IF IsArrayIndex(entries[i].symbol)
    THEN IsArrayIndex(entries[j].symbol)
            => IndexValue(entries[i].symbol) < IndexValue(entries[j].symbol)
    ELSE ~IsArrayIndex(entries[j].symbol) /\ i < j

RECURSIVE OwnKeyOrder(_)
OwnKeyOrder(entries) ==
    IF entries = <<>> THEN <<>>
    ELSE LET m == CHOOSE i \in 1..Len(entries) :
                      \A j \in 1..Len(entries) : j # i => ListedBefore(entries, i, j)
         IN  <<entries[m]>>
               \o OwnKeyOrder(SelectSeq(entries,
                                        LAMBDA e : e.symbol # entries[m].symbol))

\* the [symbol, details] entries of a dictionary, as an array
EntriesArray(raw) ==
    LET own == OwnKeyOrder(raw.elems)
    IN  [shape |-> "array",
         elems |-> [i \in 1..Len(own) |->
                      arrayElement("pairs", i, own[i].symbol, own[i].details)]]

IsNumber(v) == v.kind = "num"

\* t tenths is the nearest tenth to (mp / cost) * 100
NearestTenth(t, mp, cost) ==
    2 * Abs(t * cost - 1000 * mp) <= Abs(cost)

PercentCorrect(item) ==
    /\ "%" \in DOMAIN item
    /\ LET mp   == propertyOf(item, "M/P")
           cost == propertyOf(item, "cost_amount")
       IN  IF ~IsNumber(mp) \/ ~IsNumber(cost) \/ cost.n = 0
           THEN item["%"] = Null
           ELSE /\ item["%"].kind = "tenths"
                /\ NearestTenth(item["%"].n, mp.n, cost.n)

C15_PercentField ==
    (Parsed /\ rawPortfolio.shape \in {"array", "dict"}) =>
        \A i \in 1..Len(parsed) : PercentCorrect(parsed[i])

\* C15 holds of js/dashboard-shared.js, and of the later revision for the
\* arrays of pairs and the dictionaries
C15_PercentField_parsed ==
    (Parsed /\ rawPortfolio.shape \in {"array", "dict"}
            /\ ~(prev = "part0" /\ rawPortfolio.shape = "array"
                   /\ Len(rawPortfolio.elems) > 0
                   /\ rawPortfolio.elems[1].kind = "object")) =>
        \A i \in 1..Len(parsed) : PercentCorrect(parsed[i])

(***************************************************************************)
(* DataEntryManager (js/dataentry-manager.js, revisions 2.0.0 and 1.0.0).  *)
(*                                                                         *)
(* A JSON object is a function from its keys to its values.  An optional   *)
(* value (a property that may be undefined, a field that may be null) is   *)
(* <<>> when absent and <<value>> when present; the empty string is <<>>   *)
(* as a string.  The form in the container is <<>> when there is none and  *)
(* <<elements>> when there is one, one element per rendered field.         *)
(***************************************************************************)
Str_1_EUR_space == <<"1", " ", "E", "U", "R">>

Str_1_EUR_colon == <<"1", ":", "E", "U", "R">>

Str_5_EUR == <<"5", " ", "E", "U", "R">>

Str_9_EUR == <<"9", ":", "E", "U", "R">>

Str_x == <<"x">>

Str_blank == <<" ">>

Str_19_12 == <<"1", "9", "/", "1", "2">>

\* x || y for strings
OrString(x, y) == IF x # <<>> THEN x ELSE y

\* <folder>@data@structure.json: { "data": [ { price: ..., date: ... } ] }
structureJson ==
    ("data" :> << <<[key |-> "price", label |-> "Price"],
                    [key |-> "date", label |-> "Date"]>> >>)

\* <folder>@data@mandatory.json
mandatoryJson == ("required" :> <<"price">>) @@ ("optional" :> <<"date">>)

\* <folder>@data@format.json with the given static value and modify flag of
\* the price
formatJson(value, modify) ==
    ("price" :> [format |-> <<"FE_Decimal">>, modify |-> <<modify>>, value |-> value])
      @@ ("date" :> [format |-> <<"FE_Date">>, modify |-> <<"True">>, value |-> <<>>])

\* the JSON body of an error answer
errorJson == ("error" :> "Not Found")

\* format[key] || {}
EmptyFormat == [format |-> <<>>, modify |-> <<>>, value |-> <<>>]

\* an answer of the server: the fetch fails, or it gives a response with
\* response.ok and a body that is JSON (<<json>>) or is not (<<>>)
NetworkError == [fetched |-> FALSE, ok |-> FALSE, body |-> <<>>]

Response(ok, body) == [fetched |-> TRUE, ok |-> ok, body |-> body]

\* the answers for a configuration file whose content is json
Answers(json) ==
    {Response(TRUE, <<json>>), Response(TRUE, <<>>),
     Response(FALSE, <<errorJson>>), Response(FALSE, <<>>), NetworkError}

Files == <<"structure", "mandatory", "format">>

\* loadConfiguration of revision 1.0.0: whether it rejects, and the three
\* fields after it
loadConfiguration_v1(srv, st, ma, fo) ==
    IF \E i \in 1..3 : ~srv[Files[i]].fetched
    THEN [rejected |-> TRUE, structure |-> st, mandatory |-> ma, format |-> fo]
    ELSE IF \E i \in 1..3 : ~srv[Files[i]].ok
    THEN [rejected |-> TRUE, structure |-> st, mandatory |-> ma, format |-> fo]
    ELSE IF srv.structure.body = <<>>
    THEN [rejected |-> TRUE, structure |-> st, mandatory |-> ma, format |-> fo]
    ELSE IF srv.mandatory.body = <<>>
    THEN [rejected |-> TRUE, structure |-> srv.structure.body,
          mandatory |-> ma, format |-> fo]
    ELSE IF srv.format.body = <<>>
    THEN [rejected |-> TRUE, structure |-> srv.structure.body,
          mandatory |-> srv.mandatory.body, format |-> fo]
    ELSE [rejected |-> FALSE, structure |-> srv.structure.body,
          mandatory |-> srv.mandatory.body, format |-> srv.format.body]

\* loadConfiguration of revision 2.0.0
loadConfiguration_v2(srv, st, ma, fo) ==
    IF \E i \in 1..3 : ~srv[Files[i]].fetched
    THEN [rejected |-> TRUE, structure |-> st, mandatory |-> ma, format |-> fo]
    ELSE IF srv.structure.body = <<>>
    THEN [rejected |-> TRUE, structure |-> st, mandatory |-> ma, format |-> fo]
    ELSE IF srv.mandatory.body = <<>>
    THEN [rejected |-> TRUE, structure |-> srv.structure.body,
          mandatory |-> ma, format |-> fo]
    ELSE IF srv.format.body = <<>>
    THEN [rejected |-> TRUE, structure |-> srv.structure.body,
          mandatory |-> srv.mandatory.body, format |-> fo]
    ELSE [rejected |-> FALSE, structure |-> srv.structure.body,
          mandatory |-> srv.mandatory.body, format |-> srv.format.body]

loadConfiguration(rev, srv, st, ma, fo) ==
    IF rev = "v1" THEN loadConfiguration_v1(srv, st, ma, fo)
    ELSE loadConfiguration_v2(srv, st, ma, fo)

\* structure.data[0], <<>> when getFields returns [] at once
fieldObject(st) ==
    IF st = <<>> THEN <<>>
    ELSE IF "data" \notin DOMAIN st[1] THEN <<>>
    ELSE IF Len(st[1]["data"]) = 0 THEN <<>>
    ELSE st[1]["data"][1]

\* whether the map of getFields throws a TypeError: mandatory or format is
\* null, or mandatory has no required or no optional list
getFieldsThrows(st, ma, fo) ==
    /\ fieldObject(st) # <<>>
    /\ \/ ma = <<>>
       \/ fo = <<>>
       \/ "required" \notin DOMAIN ma[1]
       \/ "optional" \notin DOMAIN ma[1]

Includes(seq, x) == \E i \in 1..Len(seq) : seq[i] = x

\* this.format[key] || {}
formatOf(fo, key) == IF key \in DOMAIN fo[1] THEN fo[1][key] ELSE EmptyFormat

\* this.defaultValues[key] !== undefined ? this.defaultValues[key] : (format.value || '')
defaultValue_v1(defaultValues, fmt, key) ==
    IF key \in DOMAIN defaultValues THEN defaultValues[key]
    ELSE IF fmt.value # <<>> THEN OrString(fmt.value[1], <<>>)
    ELSE <<>>

\* this.defaultValues[key] || ''
defaultValue_v2(defaultValues, fmt, key) ==
    IF key \in DOMAIN defaultValues THEN OrString(defaultValues[key], <<>>) ELSE <<>>

\* getFields(), when it does not throw
getFields(rev, cfg, st, ma, fo) ==
    LET obj == fieldObject(st)
    IN  [i \in 1..Len(obj) |->
            LET key == obj[i].key
                fmt == formatOf(fo, key)
            IN  [name         |-> key,
                 label        |-> obj[i].label,
                 required     |-> Includes(ma[1]["required"], key),
                 optional     |-> Includes(ma[1]["optional"], key),
                 format       |-> fmt,
                 defaultValue |-> IF rev = "v1"
                                  THEN defaultValue_v1(cfg.defaultValues, fmt, key)
                                  ELSE defaultValue_v2(cfg.defaultValues, fmt, key)]]

\* format.format || 'text'
formatType(fmt) == IF fmt.format # <<>> THEN fmt.format[1] ELSE "text"

\* generateFieldInput(field) with its error span: the element of a field
generateFieldInput(field) ==
    [name         |-> field.name,
     required     |-> field.required,
     readonly     |-> field.format.modify = <<"False">> /\ field.defaultValue # <<>>,
     dataFormat   |-> formatType(field.format),
     defaultValue |-> field.defaultValue,
     value        |-> field.defaultValue,
     error        |-> ""]

\* the listeners attachEventListeners adds to the new form
attachEventListeners(cfg) ==
    {"submit", "reset"} \cup (IF cfg.onChange THEN {"change"} ELSE {})

\* generateForm that does not look for the container
generateForm_anyContainer(rev, cfg, st, ma, fo, containerExists, curForm, curListeners) ==
    IF getFieldsThrows(st, ma, fo)
    THEN [result |-> "threw", logged |-> FALSE,
          form |-> curForm, listeners |-> curListeners]
    ELSE LET flds == getFields(rev, cfg, st, ma, fo)
         IN  [result    |-> "returned", logged |-> FALSE,
              form      |-> <<[i \in 1..Len(flds) |-> generateFieldInput(flds[i])]>>,
              listeners |-> attachEventListeners(cfg)]

\* generateForm(containerId): how it ends, and the form and its listeners
\* after it
generateForm(rev, cfg, st, ma, fo, containerExists, curForm, curListeners) ==
    IF getFieldsThrows(st, ma, fo)
    THEN [result |-> "threw", logged |-> FALSE,
          form |-> curForm, listeners |-> curListeners]
    ELSE IF ~containerExists
    THEN [result |-> "aborted", logged |-> TRUE,
          form |-> curForm, listeners |-> curListeners]
    ELSE LET flds == getFields(rev, cfg, st, ma, fo)
         IN  [result    |-> "returned", logged |-> FALSE,
              form      |-> <<[i \in 1..Len(flds) |-> generateFieldInput(flds[i])]>>,
              listeners |-> attachEventListeners(cfg)]

Valid == [isValid |-> TRUE, message |-> ""]

Invalid(text) == [isValid |-> FALSE, message |-> text]

\* validateField(field, value) of revision 1.0.0
validateField_v1(field, value) ==
    LET type == formatType(field.format)
    IN  IF field.required /\ trim(value) = <<>> THEN Invalid("int.field.required")
        ELSE IF value = <<>> THEN Valid
        ELSE IF type = "FE_Decimal" /\ ~validateDecimal_v1(normalizeDecimal(value))
        THEN Invalid("int.format.decimal.invalid")
        ELSE IF type = "FE_Exchange" /\ ~validateExchange_v1(normalizeExchange(value))
        THEN Invalid("int.format.exchange.invalid")
        ELSE IF type = "FE_Float" /\ ~validateFloat_v1(value)
        THEN Invalid("int.format.float.invalid")
        ELSE IF type = "FE_Date" /\ ~validateDate_v1(value)
        THEN Invalid("int.format.date.invalid")
        ELSE IF type = "FE_DateTime" /\ ~validateDateTime_v1(value)
        THEN Invalid("int.format.datetime.invalid")
        ELSE Valid

\* validateField(field, value) of revision 2.0.0
validateField_v2(field, value) ==
    LET type == formatType(field.format)
    IN  IF field.required /\ trim(value) = <<>> THEN Invalid("int.field.required")
        ELSE IF value = <<>> THEN Valid
        ELSE IF type = "FE_Decimal" /\ ~validateDecimal_v2(value)
        THEN Invalid("int.format.decimal.invalid")
        ELSE IF type = "FE_Exchange" /\ ~validateExchange_v2(value)
        THEN Invalid("int.format.exchange.invalid")
        ELSE IF type \in {"FE_Float", "Fe_Float"} /\ ~validateFloat_v2(value)
        THEN Invalid("int.format.float.invalid")
        ELSE IF type = "FE_Date" /\ ~validateDate_v2(value)
        THEN Invalid("int.format.date.invalid")
        ELSE IF type = "FE_DateTime" /\ ~validateDateTime_v2(value)
        THEN Invalid("int.format.datetime.invalid")
        ELSE Valid

validateField(rev, field, value) ==
    IF rev = "v1" THEN validateField_v1(field, value) ELSE validateField_v2(field, value)

\* clearErrors()
clearErrors(elements) == [i \in 1..Len(elements) |-> [elements[i] EXCEPT !.error = ""]]

\* the field of getFields() that document.getElementById('field_' + name)
\* resolves to the element, if any
fieldsOfElement(flds, element) ==
    {j \in 1..Len(flds) : flds[j].name = element.name}

\* the result of validateField for an element: valid when no field of
\* getFields() has its name
elementResult(rev, flds, element) ==
    LET js == fieldsOfElement(flds, element)
    IN  IF js = {} THEN Valid
        ELSE validateField(rev, flds[CHOOSE j \in js : TRUE], element.value)

\* validateForm() that returns the result of the last field
validateForm_lastField(rev, flds, elements) ==
    [isValid  |-> Len(elements) = 0
                    \/ elementResult(rev, flds, elements[Len(elements)]).isValid,
     elements |-> [i \in 1..Len(elements) |->
                     [elements[i] EXCEPT
                         !.error = elementResult(rev, flds, elements[i]).message]]]

\* validateForm(): its result and the elements with their error messages
validateForm(rev, flds, elements) ==
    [isValid  |-> \A i \in 1..Len(elements) :
                      elementResult(rev, flds, elements[i]).isValid,
     elements |-> [i \in 1..Len(elements) |->
                     [elements[i] EXCEPT
                         !.error = elementResult(rev, flds, elements[i]).message]]]

\* getFormData(): the value of every named control of the form
getFormData(elements) ==
    [i \in 1..Len(elements) |-> [name |-> elements[i].name, value |-> elements[i].value]]

(***************************************************************************)
(* Inputs of the form specification                                        *)
(***************************************************************************)
\* config.defaultValues of the constructor
DefaultValueSets == {<<>>, ("price" :> <<>>), ("price" :> Str_5_EUR)}

\* the content of format.json
FormatFiles ==
    {formatJson(<<>>, "True"), formatJson(<<Str_9_EUR>>, "True"),
     formatJson(<<Str_9_EUR>>, "False")}

\* the constructor argument
Configs ==
    [defaultValues : DefaultValueSets,
     onSubmit : BOOLEAN,
     onChange : BOOLEAN]

\* what a user can type in an element
TypedValues(element) ==
    IF element.dataFormat = "FE_Decimal"
    THEN {<<>>, Str_blank, Str_1_EUR_space, Str_1_EUR_colon, Str_x}
    ELSE {<<>>, Str_2024_12_19, Str_19_12}

(***************************************************************************)
(* Form specification: a page constructs a DataEntryManager and calls its  *)
(* methods; the user types in the form and submits or resets it.  Each     *)
(* action records how the call ended, whether it logged an error, what     *)
(* getFields returned, what onSubmit received and which methods it called. *)
(***************************************************************************)
InitForm ==
    /\ drev \in {"v1", "v2"}
    /\ config \in {c \in Configs : c.onSubmit = c.onChange}
    /\ \E f \in FormatFiles :
          server \in [structure : Answers(structureJson),
                      mandatory : Answers(mandatoryJson),
                      format    : Answers(f)]
    /\ structure = <<>>
    /\ mandatory = <<>>
    /\ format = <<>>
    /\ form = <<>>
    /\ listeners = {}
    /\ clearPending = FALSE
    /\ dop = "constructor"
    /\ dresult = "returned"
    /\ logged = FALSE
    /\ containerFound = FALSE
    /\ fields = <<>>
    /\ submitted = <<>>
    /\ calls = {}
    /\ IdleFormat
    /\ IdleGroup
    /\ IdleCredentials
    /\ IdleParse
    /\ IdlePage

\* await manager.loadConfiguration()
LoadConfiguration ==
    /\ \E l \in {loadConfiguration(drev, server, structure, mandatory, format)} :
          /\ structure' = l.structure
          /\ mandatory' = l.mandatory
          /\ format' = l.format
          /\ dresult' = IF l.rejected THEN "rejected" ELSE "resolved"
          /\ logged' = l.rejected
    /\ dop' = "loadConfiguration"
    /\ containerFound' = FALSE
    /\ fields' = <<>>
    /\ submitted' = <<>>
    /\ calls' = {}
    /\ UNCHANGED <<drev, config, server, form, listeners, clearPending>>
    /\ UNCHANGED <<fvars, gvars, cvars, pvars, wvars>>

\* manager.getFields()
GetFields ==
    /\ IF getFieldsThrows(structure, mandatory, format)
       THEN /\ dresult' = "threw"
            /\ fields' = <<>>
       ELSE /\ dresult' = "returned"
            /\ fields' = getFields(drev, config, structure, mandatory, format)
    /\ dop' = "getFields"
    /\ logged' = FALSE
    /\ containerFound' = FALSE
    /\ submitted' = <<>>
    /\ calls' = {}
    /\ UNCHANGED <<drev, config, server, structure, mandatory, format,
                   form, listeners, clearPending>>
    /\ UNCHANGED <<fvars, gvars, cvars, pvars, wvars>>

\* manager.generateForm(containerId), with or without such an element
GenerateForm ==
    /\ \E exists \in BOOLEAN :
          /\ containerFound' = exists
          /\ \E g \in {generateForm(drev, config, structure, mandatory, format,
                                    exists, form, listeners)} :
                /\ form' = g.form
                /\ listeners' = g.listeners
                /\ dresult' = g.result
                /\ logged' = g.logged
                /\ calls' = {"getFields"}
                             \cup (IF g.result = "returned"
                                   THEN {"attachEventListeners"} ELSE {})
    /\ dop' = "generateForm"
    /\ fields' = <<>>
    /\ submitted' = <<>>
    /\ UNCHANGED <<drev, config, server, structure, mandatory, format, clearPending>>
    /\ UNCHANGED <<fvars, gvars, cvars, pvars, wvars>>

\* await manager.init(containerId)
InitManager ==
    /\ \E exists \in BOOLEAN,
          l \in {loadConfiguration(drev, server, structure, mandatory, format)} :
          /\ containerFound' = exists
          /\ structure' = l.structure
          /\ mandatory' = l.mandatory
          /\ format' = l.format
          /\ IF l.rejected
             THEN /\ dresult' = "rejected"
                  /\ logged' = TRUE
                  /\ calls' = {"loadConfiguration"}
                  /\ UNCHANGED <<form, listeners>>
             ELSE \E g \in {generateForm(drev, config, l.structure, l.mandatory,
                                         l.format, exists, form, listeners)} :
                     /\ form' = g.form
                     /\ listeners' = g.listeners
                     /\ dresult' = IF g.result = "threw" THEN "rejected" ELSE "resolved"
                     /\ logged' = g.logged
                     /\ calls' = {"loadConfiguration", "generateForm", "getFields"}
                                  \cup (IF g.result = "returned"
                                        THEN {"attachEventListeners"} ELSE {})
    /\ dop' = "init"
    /\ fields' = <<>>
    /\ submitted' = <<>>
    /\ UNCHANGED <<drev, config, server, clearPending>>
    /\ UNCHANGED <<fvars, gvars, cvars, pvars, wvars>>

\* the user changes the value of an element that is not read-only; the
\* change listener, when there is one, hands name and value to onChange
TypeValue ==
    /\ form # <<>>
    /\ \E i \in 1..Len(form[1]) :
          /\ ~form[1][i].readonly
          /\ \E v \in TypedValues(form[1][i]) :
                /\ v # form[1][i].value
                /\ form' = <<[form[1] EXCEPT ![i].value = v]>>
    /\ dop' = "change"
    /\ dresult' = "returned"
    /\ logged' = FALSE
    /\ containerFound' = FALSE
    /\ fields' = <<>>
    /\ submitted' = <<>>
    /\ calls' = IF "change" \in listeners THEN {"onChange"} ELSE {}
    /\ UNCHANGED <<drev, config, server, structure, mandatory, format,
                   listeners, clearPending>>
    /\ UNCHANGED <<fvars, gvars, cvars, pvars, wvars>>

\* the submit event of the form
Submit ==
    /\ form # <<>>
    /\ "submit" \in listeners
    /\ IF getFieldsThrows(structure, mandatory, format)
       THEN /\ form' = <<clearErrors(form[1])>>
            /\ dresult' = "threw"
            /\ submitted' = <<>>
            /\ calls' = {"validateForm", "getFields"}
       ELSE \E v \in {validateForm(drev,
                                   getFields(drev, config, structure, mandatory, format),
                                   form[1])} :
               /\ form' = <<v.elements>>
               /\ dresult' = "returned"
               /\ submitted' = IF v.isValid /\ config.onSubmit
                               THEN <<getFormData(form[1])>> ELSE <<>>
               /\ calls' = {"validateForm", "getFields"}
                            \cup (IF v.isValid THEN {"getFormData"} ELSE {})
                            \cup (IF v.isValid /\ config.onSubmit
                                  THEN {"onSubmit"} ELSE {})
    /\ dop' = "submit"
    /\ logged' = FALSE
    /\ containerFound' = FALSE
    /\ fields' = <<>>
    /\ UNCHANGED <<drev, config, server, structure, mandatory, format,
                   listeners, clearPending>>
    /\ UNCHANGED <<fvars, gvars, cvars, pvars, wvars>>

\* the reset event of the form: the browser restores the default values and
\* the listener schedules clearErrors
Reset ==
    /\ form # <<>>
    /\ "reset" \in listeners
    /\ form' = <<[i \in 1..Len(form[1]) |->
                    [form[1][i] EXCEPT !.value = form[1][i].defaultValue]]>>
    /\ clearPending' = TRUE
    /\ dop' = "reset"
    /\ dresult' = "returned"
    /\ logged' = FALSE
    /\ containerFound' = FALSE
    /\ fields' = <<>>
    /\ submitted' = <<>>
    /\ calls' = {}
    /\ UNCHANGED <<drev, config, server, structure, mandatory, format, listeners>>
    /\ UNCHANGED <<fvars, gvars, cvars, pvars, wvars>>

\* the callback of setTimeout(() => this.clearErrors(), 0)
ClearErrorsTimer ==
    /\ clearPending
    /\ clearPending' = FALSE
    /\ form' = IF form = <<>> THEN form ELSE <<clearErrors(form[1])>>
    /\ dop' = "clearErrors"
    /\ dresult' = "returned"
    /\ logged' = FALSE
    /\ containerFound' = FALSE
    /\ fields' = <<>>
    /\ submitted' = <<>>
    /\ calls' = {"clearErrors"}
    /\ UNCHANGED <<drev, config, server, structure, mandatory, format, listeners>>
    /\ UNCHANGED <<fvars, gvars, cvars, pvars, wvars>>

NextForm ==
    \/ LoadConfiguration
    \/ GetFields
    \/ GenerateForm
    \/ InitManager
    \/ TypeValue
    \/ Submit
    \/ Reset
    \/ ClearErrorsTimer

SpecForm == InitForm /\ [][NextForm]_vars

(***************************************************************************)
(* What the form claims speak about                                        *)
(***************************************************************************)
\* a configuration file that is missing (no response, or a response that
\* is not OK) or whose body is not valid JSON
FileFaulty(file) ==
    \/ ~server[file].fetched
    \/ ~server[file].ok
    \/ server[file].body = <<>>

SomeFileFaulty == \E i \in 1..3 : FileFaulty(Files[i])

(***************************************************************************)
(* C12: loadConfiguration rejects whenever one of the three configuration  *)
(* files (structure, mandatory, format) is missing (non-OK response) or is *)
(* not valid JSON; init(containerId) then rejects too and never calls      *)
(* generateForm, so no form is rendered.                                   *)
(***************************************************************************)
C12_LoadRejects ==
    SomeFileFaulty =>
        /\ dop = "loadConfiguration" => dresult = "rejected"
        /\ dop = "init" => /\ dresult = "rejected"
                           /\ "generateForm" \notin calls
                           /\ "attachEventListeners" \notin calls

\* C12 holds of revision 1.0.0, which checks response.ok
C12_LoadRejects_v1 == drev = "v1" => C12_LoadRejects

(***************************************************************************)
(* C13: on a submit event onSubmit is invoked only if every rendered field *)
(* passes validateField (each required field is non-blank and each         *)
(* formatted field matches its format); if a field is a missing required   *)
(* field or fails its format, onSubmit is not invoked and an inline error  *)
(* message is shown for every such field.                                  *)
(***************************************************************************)
\* the value matches the format of the element, as FormatHelper of the
\* revision judges it
MatchesFormat(rev, type, value) ==
    CASE type = "FE_Decimal" ->
            IF rev = "v1" THEN validateDecimal_v1(normalizeDecimal(value))
            ELSE validateDecimal_v2(value)
      [] type = "FE_Date" ->
            IF rev = "v1" THEN validateDate_v1(value) ELSE validateDate_v2(value)
      [] OTHER -> TRUE

\* a missing required field, or a filled field that fails its format
FieldFails(element) ==
    \/ element.required /\ trim(element.value) = <<>>
    \/ element.value # <<>> /\ ~MatchesFormat(drev, element.dataFormat, element.value)

C13_SubmitValidates ==
    dop = "submit" =>
        /\ ("onSubmit" \in calls \/ submitted # <<>>)
              => \A i \in 1..Len(form[1]) : ~FieldFails(form[1][i])
        /\ (\E i \in 1..Len(form[1]) : FieldFails(form[1][i]))
              => /\ submitted = <<>>
                 /\ "onSubmit" \notin calls
                 /\ \A i \in 1..Len(form[1]) :
                       FieldFails(form[1][i]) => form[1][i].error # ""

C13_Witness ==
    /\ dop = "submit"
    /\ config.onSubmit
    /\ Len(form[1]) = 2
    /\ form[1][1].required
    /\ form[1][1].value = Str_blank
    /\ form[1][1].error = "int.field.required"
    /\ form[1][2].value = Str_19_12
    /\ form[1][2].error = "int.format.date.invalid"
    /\ submitted = <<>>

(***************************************************************************)
(* C18: in getFields of revision 1.0.0 the value defined in format.json    *)
(* has priority: when format[key].value is present it is the defaultValue  *)
(* of the field, config.defaultValues[key] is used only when format.json   *)
(* defines no value, and with neither the default is ''.                   *)
(***************************************************************************)
\* the value of format.json for a key: <<>> when it defines none
FormatValue(key) ==
    IF key \in DOMAIN format[1] /\ format[1][key].value # <<>>
          /\ format[1][key].value[1] # <<>>
    THEN format[1][key].value
    ELSE <<>>

GotFields_v1 == dop = "getFields" /\ drev = "v1" /\ dresult = "returned"

C18_FormatValueFirst ==
    GotFields_v1 =>
        \A i \in 1..Len(fields) :
            fields[i].defaultValue
               = IF FormatValue(fields[i].name) # <<>>
                 THEN FormatValue(fields[i].name)[1]
                 ELSE IF fields[i].name \in DOMAIN config.defaultValues
                 THEN config.defaultValues[fields[i].name]
                 ELSE <<>>

\* what revision 1.0.0 does: config.defaultValues[key] first, whenever it is
\* defined, then the value of format.json, then ''
C18_DefaultValuesFirst ==
    GotFields_v1 =>
        \A i \in 1..Len(fields) :
            fields[i].defaultValue
               = IF fields[i].name \in DOMAIN config.defaultValues
                 THEN config.defaultValues[fields[i].name]
                 ELSE IF FormatValue(fields[i].name) # <<>>
                 THEN FormatValue(fields[i].name)[1]
                 ELSE <<>>

(***************************************************************************)
(* C20: when the container element does not exist, generateForm logs and   *)
(* aborts: it changes nothing in the DOM, attaches no submit, reset or     *)
(* change listener and leaves structure, mandatory and format unchanged.   *)
(* The log is written when getFields returns; on a half-loaded             *)
(* configuration getFields throws before the container is looked up, and   *)
(* nothing is changed either.                                              *)
(***************************************************************************)
C20_Step ==
    (dop' = "generateForm" /\ ~containerFound') =>
        /\ form' = form
        /\ listeners' = listeners
        /\ structure' = structure
        /\ mandatory' = mandatory
        /\ format' = format
        /\ "attachEventListeners" \notin calls'
        /\ IF getFieldsThrows(structure, mandatory, format)
           THEN dresult' = "threw"
           ELSE dresult' = "aborted" /\ logged'

Languages == {"en_UK", "it_IT", "fr_FR"}

\* the object held by lang/<lang>.json
langFile(lang) ==
    CASE lang = "en_UK" -> [title |-> "Welcome", description |-> "Choose a language"]
      [] lang = "it_IT" -> [title |-> "Benvenuto", description |-> "Scegli una lingua"]
      [] lang = "fr_FR" -> [title |-> "Bienvenue", description |-> "Choisissez une langue"]

EmptyObject == <<>>

\* how a fetch settles: it rejects, or resolves with response.ok false or true
FetchOutcomes == {"rejected", "notOk", "ok"}

\* what the body of an OK response holds: text that is not JSON, the JSON
\* value null, or the object of the language file
Bodies == {"invalid", "null", "object"}

\* the state of the manager after the catch block
loadTranslations_catch_keepTranslations(st) ==
    [translations |-> st.translations, currentLang |-> st.currentLang,
     value |-> FALSE]

loadTranslations_catch(st) ==
    [translations |-> EmptyObject, currentLang |-> st.currentLang,
     value |-> FALSE]

\* the state of the manager after the body was read as json
loadTranslations_assign_keepLang(lang, json, st) ==
    [translations |-> json, currentLang |-> st.currentLang, value |-> TRUE]

loadTranslations_assign(lang, json, st) ==
    [translations |-> json, currentLang |-> lang, value |-> TRUE]

\* response.json() on the body, then Object.keys(json), which throws a
\* TypeError on null; every exception ends in the catch block
loadTranslations_body(lang, body, st) ==
    CASE body = "invalid" -> loadTranslations_catch(st)
      [] body = "null" -> loadTranslations_catch(st)
      [] body = "object" -> loadTranslations_assign(lang, langFile(lang), st)

Manager == [translations |-> translations, currentLang |-> currentLang]

StillLoading(id) == [i \in DOMAIN loading \ {id} |-> loading[i]]

InitTranslations ==
    /\ currentLang = "en_UK"
    /\ translations = EmptyObject
    /\ loading = <<>>
    /\ started = 0
    /\ completed = <<>>
    /\ IdleSelector
    /\ IdleUtils
    /\ IdleShared
    /\ IdleFormat
    /\ IdleGroup
    /\ IdleCredentials
    /\ IdleParse
    /\ IdleForm

\* setLanguage(lang) calls loadTranslations(lang), which issues the fetch
SetLanguage ==
    \E lang \in Languages :
        /\ started < MaxCalls
        /\ started' = started + 1
        /\ loading' = (started + 1 :> [lang |-> lang, at |-> "fetch"]) @@ loading
        /\ UNCHANGED <<currentLang, translations, completed>>
        /\ UNCHANGED <<fvars, gvars, cvars, pvars, dvars, svars, uvars, hvars>>

\* the fetch of one call settles
FetchSettles ==
    \E id \in DOMAIN loading, r \in FetchOutcomes :
        /\ loading[id].at = "fetch"
        /\ IF r = "ok"
           THEN /\ loading' = [loading EXCEPT ![id].at = "json"]
                /\ UNCHANGED <<currentLang, translations, completed>>
           ELSE \E st \in {loadTranslations_catch(Manager)} :
                /\ loading' = StillLoading(id)
                /\ translations' = st.translations
                /\ currentLang' = st.currentLang
                /\ completed' = <<[id |-> id, lang |-> loading[id].lang,
                                   response |-> r, value |-> st.value]>>
        /\ UNCHANGED started
        /\ UNCHANGED <<fvars, gvars, cvars, pvars, dvars, svars, uvars, hvars>>

\* the body of one OK response has been read
JsonSettles ==
    \E id \in DOMAIN loading, body \in Bodies :
        /\ loading[id].at = "json"
        /\ \E st \in {loadTranslations_body(loading[id].lang, body, Manager)} :
            /\ loading' = StillLoading(id)
            /\ translations' = st.translations
            /\ currentLang' = st.currentLang
            /\ completed' = <<[id |-> id, lang |-> loading[id].lang,
                               response |-> body, value |-> st.value]>>
        /\ UNCHANGED started
        /\ UNCHANGED <<fvars, gvars, cvars, pvars, dvars, svars, uvars, hvars>>

NextTranslations ==
    \/ SetLanguage
    \/ FetchSettles
    \/ JsonSettles

SpecTranslations == InitTranslations /\ [][NextTranslations]_vars

(***************************************************************************)
(* C21, as stated: loadTranslations returns true and sets translations and *)
(* currentLang to the loaded language when the fetch succeeds with valid   *)
(* JSON; on a failed fetch, a non-OK response or invalid JSON it returns   *)
(* false, resets translations to the empty object and leaves currentLang   *)
(* unchanged; every call returns.  The body null is valid JSON.            *)
(***************************************************************************)
Returned == completed' # completed

C21_Step_validJson ==
    Returned =>
        IF completed'[1].response \in {"object", "null"}
        THEN /\ completed'[1].value = TRUE
             /\ currentLang' = completed'[1].lang
        ELSE /\ completed'[1].value = FALSE
             /\ translations' = EmptyObject
             /\ currentLang' = currentLang

C21_LoadTranslations_validJson == [][C21_Step_validJson]_vars

(***************************************************************************)
(* C21, amended: the same, where the JSON value null counts as a failure:  *)
(* Object.keys(null) throws inside the try block, so the call returns      *)
(* false, translations is reset and currentLang is kept.                   *)
(***************************************************************************)
C21_Step ==
    Returned =>
        IF completed'[1].response = "object"
        THEN /\ completed'[1].value = TRUE
             /\ translations' = langFile(completed'[1].lang)
             /\ currentLang' = completed'[1].lang
        ELSE /\ completed'[1].value = FALSE
             /\ translations' = EmptyObject
             /\ currentLang' = currentLang

C21_LoadTranslations == [][C21_Step]_vars

\* a failed call has wiped the translations of the language loaded before it
C21_Witness ==
    /\ completed # <<>>
    /\ completed[1].value = FALSE
    /\ completed[1].response = "invalid"
    /\ completed[1].lang = "fr_FR"
    /\ currentLang = "it_IT"
    /\ translations = EmptyObject

(***************************************************************************)
(* C22: under any interleaving of overlapping setLanguage calls, in every  *)
(* reachable state translations is the empty object or the content loaded  *)
(* for currentLang.                                                        *)
(***************************************************************************)
C22_Paired ==
    currentLang \in Languages =>
        \/ translations = EmptyObject
        \/ translations = langFile(currentLang)

\* a later call has completed while an earlier one, for another language,
\* is still waiting for its response
C22_Witness ==
    /\ completed # <<>>
    /\ completed[1].value = TRUE
    /\ translations = langFile("fr_FR")
    /\ currentLang = "fr_FR"
    /\ \E id \in DOMAIN loading :
        /\ id < completed[1].id
        /\ loading[id].lang = "it_IT"

(***************************************************************************)
(* The language-selector script (dataentry-utils.js, the script after the  *)
(* classes).  It loads the initial language when it runs and one language  *)
(* per change of the selector; it waits for no load, so the responses of   *)
(* successive loads arrive in any order.                                   *)
(***************************************************************************)
Str_loadError == "Errore nel caricamento delle traduzioni"

\* the two assignments of the try block; reading a property of null throws
showTranslations(json) ==
    [title |-> json.title, description |-> json.description]

\* the catch block
showLoadError == [title |-> Str_loadError, description |-> ""]

\* what the page shows when the body of an OK response has been read
shown_body(lang, body) ==
    CASE body = "invalid" -> showLoadError
      [] body = "null" -> showLoadError
      [] body = "object" -> showTranslations(langFile(lang))

\* the script has run: currentLang is 'en_UK' and its load is in flight
InitSelector ==
    /\ pageCurrentLang = "en_UK"
    /\ title = ""
    /\ description = ""
    /\ requests = <<[lang |-> "en_UK", at |-> "fetch"]>>
    /\ selections = 0
    /\ IdleTranslations
    /\ IdleUtils
    /\ IdleShared
    /\ IdleFormat
    /\ IdleGroup
    /\ IdleCredentials
    /\ IdleParse
    /\ IdleForm

\* the change listener; the selector fires it when its value has changed
ChangeLanguage ==
    \E lang \in Languages \ {pageCurrentLang} :
        /\ selections < MaxSelections
        /\ selections' = selections + 1
        /\ pageCurrentLang' = lang
        /\ requests' = Append(requests, [lang |-> lang, at |-> "fetch"])
        /\ UNCHANGED <<title, description>>
        /\ UNCHANGED <<fvars, gvars, cvars, pvars, dvars, tvars, uvars, hvars>>

\* the fetch of one load settles
SelectorFetchSettles ==
    \E id \in DOMAIN requests, r \in FetchOutcomes :
        /\ requests[id].at = "fetch"
        /\ IF r = "ok"
           THEN /\ requests' = [requests EXCEPT ![id].at = "json"]
                /\ UNCHANGED <<title, description>>
           ELSE /\ requests' = [requests EXCEPT ![id].at = "failed"]
                /\ title' = showLoadError.title
                /\ description' = showLoadError.description
        /\ UNCHANGED <<pageCurrentLang, selections>>
        /\ UNCHANGED <<fvars, gvars, cvars, pvars, dvars, tvars, uvars, hvars>>

\* the body of one OK response has been read
SelectorJsonSettles ==
    \E id \in DOMAIN requests, body \in Bodies :
        /\ requests[id].at = "json"
        /\ \E sh \in {shown_body(requests[id].lang, body)} :
            /\ title' = sh.title
            /\ description' = sh.description
        /\ requests' = [requests EXCEPT
                           ![id].at = IF body = "object" THEN "done" ELSE "failed"]
        /\ UNCHANGED <<pageCurrentLang, selections>>
        /\ UNCHANGED <<fvars, gvars, cvars, pvars, dvars, tvars, uvars, hvars>>

NextSelector ==
    \/ ChangeLanguage
    \/ SelectorFetchSettles
    \/ SelectorJsonSettles

SpecSelector == InitSelector /\ [][NextSelector]_vars

(***************************************************************************)
(* C23: once every in-flight load has completed, the title and the         *)
(* description shown are those of currentLang, the language selected last, *)
(* whatever the order in which the responses arrived.  Stated for the runs *)
(* where every load has succeeded.                                         *)
(***************************************************************************)
AllLoaded ==
    \A id \in DOMAIN requests : requests[id].at = "done"

C23_ShowsCurrentLang ==
    (pageCurrentLang \in Languages /\ AllLoaded)
        => /\ title = langFile(pageCurrentLang).title
           /\ description = langFile(pageCurrentLang).description

\* what the script guarantees: when every load has succeeded, the page
\* shows the language of one of them
C23_ShowsSomeLoad ==
    (pageCurrentLang \in Languages /\ AllLoaded)
        => \E id \in DOMAIN requests :
            /\ title = langFile(requests[id].lang).title
            /\ description = langFile(requests[id].lang).description

(***************************************************************************)
(* C24: loadConfiguration of revision 1.0.0 is all-or-nothing: when the    *)
(* call rejects, structure, mandatory and format keep the values they had  *)
(* before the call, and getFields afterwards does not throw.               *)
(***************************************************************************)
LoadRejected_v1 ==
    dop' = "loadConfiguration" /\ drev' = "v1" /\ dresult' = "rejected"

C24_Step ==
    LoadRejected_v1 =>
        /\ structure' = structure
        /\ mandatory' = mandatory
        /\ format' = format
        /\ ~getFieldsThrows(structure', mandatory', format')

C24_AllOrNothing == [][C24_Step]_vars

\* what revision 1.0.0 does: nothing is assigned when a fetch fails or a
\* response is not OK, because all three are checked before any body is
\* parsed; a file parsed before the one that is not JSON stays assigned
C24_Step_beforeParsing ==
    (LoadRejected_v1 /\ \E i \in 1..3 : ~server[Files[i]].fetched \/ ~server[Files[i]].ok)
        => /\ structure' = structure
           /\ mandatory' = mandatory
           /\ format' = format

C24_NothingBeforeParsing == [][C24_Step_beforeParsing]_vars

(***************************************************************************)
(* C25: the username and the token returned by getCredentials, and then    *)
(* persisted by saveCredentials, come from the same source: a username     *)
(* taken from the URL is never combined with a token left in localStorage  *)
(* by an earlier session, nor the reverse.                                 *)
(***************************************************************************)
\* where getCredentials takes a field from, given the URL of the page and
\* localStorage as it is before the call
SourceOf(field) ==
    IF UrlParam(field) # <<>> /\ UrlParam(field)[1] # <<>> THEN "URL"
    ELSE IF localStorage[field] # <<>> /\ localStorage[field][1] # <<>>
    THEN "localStorage"
    ELSE "default"

C25_Step ==
    cop' = "getCredentials" =>
        /\ ~(SourceOf("username") = "URL" /\ SourceOf("token") = "localStorage")
        /\ ~(SourceOf("username") = "localStorage" /\ SourceOf("token") = "URL")

C25_SameSource == [][C25_Step]_vars

\* what getCredentials does guarantee: a URL that carries both a username
\* and a token replaces the stored pair as a whole
C25_Step_bothInUrl ==
    (/\ cop' = "getCredentials"
     /\ SourceOf("username") = "URL"
     /\ SourceOf("token") = "URL")
        => /\ credentials'[1].username = UrlParam("username")[1]
           /\ credentials'[1].token = UrlParam("token")[1]
           /\ localStorage'.username = UrlParam("username")
           /\ localStorage'.token = UrlParam("token")

C25_BothInUrl == [][C25_Step_bothInUrl]_vars

(***************************************************************************)
(* C28: every FE_Decimal value in the data object that DataEntryManager of *)
(* revision 1.0.0 passes to onSubmit is in normalized colon form, that is, *)
(* satisfies FormatHelper.validateDecimal; a value typed with a space      *)
(* separator is never handed to onSubmit with the space still in it.       *)
(* Stated for the values that are not empty.                               *)
(***************************************************************************)
Submitted_v1 == dop = "submit" /\ drev = "v1" /\ submitted # <<>>

C28_SubmitsNormalized ==
    Submitted_v1 =>
        \A i \in 1..Len(submitted[1]) :
            (form[1][i].dataFormat = "FE_Decimal" /\ submitted[1][i].value # <<>>)
                => validateDecimal_v1(submitted[1][i].value)

\* what revision 1.0.0 does: the value handed over is the one typed, and it
\* is its normalized form that satisfies validateDecimal
C28_SubmitsTyped ==
    Submitted_v1 =>
        \A i \in 1..Len(submitted[1]) :
            /\ submitted[1][i].value = form[1][i].value
            /\ (form[1][i].dataFormat = "FE_Decimal" /\ submitted[1][i].value # <<>>)
                  => validateDecimal_v1(normalizeDecimal(submitted[1][i].value))

(***************************************************************************)
(* DataEntryUtils.getTimezoneOffsetString.  tzo is                         *)
(* -new Date().getTimezoneOffset(): the local offset in minutes east of    *)
(* UTC.                                                                    *)
(***************************************************************************)
\* Math.floor(a / b) for b > 0
mathFloorDiv(a, b) ==
    IF a >= 0 THEN a \div b ELSE -(((-a) + b - 1) \div b)

\* a % b of JavaScript: the remainder has the sign of the dividend
remainder(a, b) ==
    IF a >= 0 THEN a % b ELSE -((-a) % b)

\* String(n) for n >= 0
RECURSIVE numberToString(_)
numberToString(n) ==
    LET digit(d) == <<"0", "1", "2", "3", "4", "5", "6", "7", "8", "9">>[d + 1]
    IN  IF n < 10 THEN <<digit(n)>>
        ELSE numberToString(n \div 10) \o <<digit(n % 10)>>

\* pad = (num) => String(Math.abs(num)).padStart(2, '0')
padAbs(num) ==
    LET str == numberToString(Abs(num))
    IN  IF Len(str) < 2 THEN <<"0">> \o str ELSE str

getTimezoneOffsetString(offset) ==
    <<IF offset >= 0 THEN "+" ELSE "-">>
        \o padAbs(mathFloorDiv(offset, 60))
        \o padAbs(remainder(offset, 60))

InitUtils ==
    /\ tzo \in (0 - MaxWestOffset)..MaxOffset
    /\ offsetString = <<>>
    /\ IdleTranslations
    /\ IdleSelector
    /\ IdleShared
    /\ IdleFormat
    /\ IdleGroup
    /\ IdleCredentials
    /\ IdleParse
    /\ IdleForm

\* DataEntryUtils.getTimezoneOffsetString()
GetTimezoneOffsetString ==
    /\ offsetString' = getTimezoneOffsetString(tzo)
    /\ UNCHANGED tzo
    /\ UNCHANGED <<fvars, gvars, cvars, pvars, dvars, tvars, svars, hvars>>

NextUtils == GetTimezoneOffsetString

SpecUtils == InitUtils /\ [][NextUtils]_vars

(***************************************************************************)
(* C26: for every local offset in minutes east of UTC, positive, negative  *)
(* and not a multiple of 60, getTimezoneOffsetString returns sign, HH and  *)
(* MM with two digits each, MM in 00-59, the sign '-' exactly when the     *)
(* offset is negative, and HH*60 + MM equal to the absolute value of the   *)
(* offset.                                                                 *)
(***************************************************************************)
IsOffsetString(s, offset) ==
    /\ Len(s) = 5
    /\ s[1] \in {"+", "-"}
    /\ \A i \in 2..5 : s[i] \in Digits
    /\ TwoDigits(s, 4) <= 59
    /\ s[1] = "-" <=> offset < 0
    /\ TwoDigits(s, 2) * 60 + TwoDigits(s, 4) = Abs(offset)

C26_OffsetString ==
    offsetString # <<>> => IsOffsetString(offsetString, tzo)

\* what the function does guarantee: the string is right for the offsets
\* east of UTC and for the whole hours west of it; for the other offsets
\* west of UTC the hour is one too many
C26_EastOrWholeHours ==
    offsetString # <<>> =>
        IF tzo >= 0 \/ tzo % 60 = 0
        THEN IsOffsetString(offsetString, tzo)
        ELSE IsOffsetString(offsetString, tzo - 60)

(***************************************************************************)
(* The shared data-entry module: SharedDataEntryRenderer installs a blur   *)
(* handler on the input of a field, SharedDataEntryValidator.validateField *)
(* judges the field when the page submits.  Both use the FormatHelper that *)
(* has the normalizers (revision 1.0.0).                                   *)
(***************************************************************************)
\* /^[a-zA-Z][a-zA-Z0-9]*$/.test(s)
textRegex(s) ==
    ReEnd(s, ReRange(s, ReClass(s, {1}, Upper \cup Lower),
                     Upper \cup Lower \cup Digits, 0, Len(s)))

\* attachFieldListeners: the type handed to attachValidator, "none" when no
\* validator is attached
validatorType(fmt) ==
    CASE fmt = "FE_Decimal" -> "Decimal"
      [] fmt = "FE_Exchange" -> "Exchange"
      [] fmt = "FE_Text" -> "Text"
      [] OTHER -> "none"

\* the blur handler installed by attachValidator: the callback it calls and
\* the value it leaves in the input
blurHandler(required, type, inputValue) ==
    LET value == trim(inputValue)
        normalized == IF type = "Decimal" THEN normalizeDecimal(value)
                      ELSE normalizeExchange(value)
        isValid == IF type = "Decimal" THEN validateDecimal_v1(normalized)
                   ELSE validateExchange_v1(normalized)
    IN  IF value = <<>> /\ required
        THEN [callback |-> "showError", value |-> inputValue]
        ELSE IF value = <<>>
        THEN [callback |-> "clearError", value |-> inputValue]
        ELSE IF type = "Text"
        THEN [callback |-> IF textRegex(value) THEN "clearError" ELSE "showError",
              value |-> inputValue]
        ELSE [callback |-> IF isValid THEN "clearError" ELSE "showError",
              value |-> normalized]

\* SharedDataEntryValidator.validateField(field, inputElement).isValid
sharedValidateField(field, inputValue) ==
    LET value == trim(inputValue)
        fmt == field.format
    IN  IF field.required /\ value = <<>> THEN FALSE
        ELSE IF value = <<>> THEN TRUE
        ELSE IF fmt = "FE_Decimal" /\ ~validateDecimal_v1(value) THEN FALSE
        ELSE IF fmt = "FE_DateTime" /\ ~validateDateTime_v1(value) THEN FALSE
        ELSE IF fmt = "FE_Date" /\ ~validateDate_v1(value) THEN FALSE
        ELSE IF fmt = "FE_Exchange" /\ ~validateExchange_v1(value) THEN FALSE
        ELSE IF fmt = "FE_Text" /\ ~textRegex(value) THEN FALSE
        ELSE TRUE

Str_1_10_space_EUR_USD == <<"1", ".", "1", "0", " ", "E", "U", "R", "/", "U", "S", "D">>

\* the fields that get a blur validator
SharedFields == [format : {"FE_Decimal", "FE_Exchange", "FE_Text"}, required : BOOLEAN]

\* what the input of a field can hold
SharedInputs ==
    {<<>>, Str_blank, Str_x, <<"1", "x">>, <<"x", "1">>,
     Str_123_45_space_EUR, Str_123_45_colon_EUR,
     <<" ">> \o Str_123_45_colon_EUR \o <<" ">>,
     Str_1_10_space_EUR_USD, Str_1_10_colon_EUR_USD,
     Str_1_EUR_space, <<"1", ":", "e", "u", "r">>}

InitShared ==
    /\ sharedField \in SharedFields
    /\ sharedValue \in SharedInputs
    /\ blurred = <<>>
    /\ validated = <<>>
    /\ IdleTranslations
    /\ IdleSelector
    /\ IdleUtils
    /\ IdleFormat
    /\ IdleGroup
    /\ IdleCredentials
    /\ IdleParse
    /\ IdleForm

\* the input loses the focus
Blur ==
    /\ \E b \in {blurHandler(sharedField.required,
                             validatorType(sharedField.format), sharedValue)} :
          /\ blurred' = <<[value |-> sharedValue, callback |-> b.callback,
                           left |-> b.value]>>
          /\ sharedValue' = b.value
    /\ UNCHANGED <<sharedField, validated>>
    /\ UNCHANGED <<fvars, gvars, cvars, pvars, dvars, tvars, svars, uvars>>

\* the page validates the field on submit
ValidateShared ==
    /\ validated' = <<[value |-> sharedValue,
                       isValid |-> sharedValidateField(sharedField, sharedValue)]>>
    /\ UNCHANGED <<sharedField, sharedValue, blurred>>
    /\ UNCHANGED <<fvars, gvars, cvars, pvars, dvars, tvars, svars, uvars>>

\* the user replaces the content of the input
TypeShared ==
    /\ \E v \in SharedInputs \ {sharedValue} : sharedValue' = v
    /\ blurred' = <<>>
    /\ validated' = <<>>
    /\ UNCHANGED sharedField
    /\ UNCHANGED <<fvars, gvars, cvars, pvars, dvars, tvars, svars, uvars>>

NextShared ==
    \/ Blur
    \/ ValidateShared
    \/ TypeShared

SpecShared == InitShared /\ [][NextShared]_vars

(***************************************************************************)
(* C27: for every FE_Decimal, FE_Exchange or FE_Text field, required or    *)
(* not, and every input value, SharedDataEntryValidator.validateField      *)
(* reports isValid true exactly when the blur handler calls clearError for *)
(* that same value.                                                        *)
(***************************************************************************)
C27_ValidatorsAgree ==
    (/\ blurred # <<>>
     /\ validated # <<>>
     /\ blurred[1].value = validated[1].value)
        => (validated[1].isValid <=> blurred[1].callback = "clearError")

\* what the module does guarantee: the two agree on the value that the
\* blur handler has left in the input
C27_AgreeAfterBlur ==
    (/\ blurred # <<>>
     /\ validated # <<>>
     /\ blurred[1].left = validated[1].value)
        => (validated[1].isValid <=> blurred[1].callback = "clearError")

====
